---- MODULE Spec2Model ----
(***************************************************************************)
(* Model of the recipe API of recipe-app-api: the entity store (User,      *)
(* Recipe, Tag, Ingrediant rows and the two many-to-many link tables), the *)
(* nested tag / ingrediant reconciliation of RecipeSerializer, the owner   *)
(* scoped querysets of RecipeViewSet and BaseRecipeAttrViewSet, and the    *)
(* user endpoints (register, token, me, admin users, password reset).      *)
(*                                                                         *)
(* Every request is one action: the handler runs from routing to response. *)
(* A handler is an operator from the request and the database to the       *)
(* response and the database it leaves; the action commits that database.  *)
(* The serializers and views open no transaction, so every ORM call of a   *)
(* handler is committed on its own; a handler that raises half way leaves  *)
(* behind what it had written until then.                                  *)
(***************************************************************************)
EXTENDS Integers, Sequences, FiniteSets, TLC

(***************************************************************************)
(* Bounds of the model.                                                    *)
(***************************************************************************)
MaxRecipes == 2
MaxTags == 2
MaxIngrediants == 1
MaxPayloadLen == 2
MaxUsers == 2
MaxEmailLen == 4

Users == 1..MaxUsers
Names == {"a", "b"}
Titles == {"t1"}
Images == {"img"}

VARIABLES
    users,               \* User rows: id -> [email, password, name, is_staff,
                         \*                   is_superuser, is_active]
    recipes,             \* Recipe rows: id -> [user, title, image]
    tags,                \* Tag rows: id -> [user, name]
    ingrediants,         \* Ingrediant rows: id -> [user, name]
    recipe_tags,         \* link table of Recipe.tags: set of <<recipe id, tag id>>
    recipe_ingrediants,  \* link table of Recipe.ingrediants
    last_id,             \* last primary key handed out, per table
    workers              \* the requests being handled step by step, each
                         \* by one worker of the server: worker -> its
                         \* position in RecipeSerializer.create / update

vars == <<users, recipes, tags, ingrediants, recipe_tags, recipe_ingrediants,
          last_id, workers>>

(***************************************************************************)
(* Python dicts (payloads, validated_data, query_params) are functions     *)
(* whose domain is the set of keys present.                                *)
(***************************************************************************)
EmptyDict == <<>>

Has(d, k) == k \in DOMAIN d

\* dict.pop(k): the dict without the key
Without(d, ks) == [k \in DOMAIN d \ ks |-> d[k]]

\* the dicts d1 and d2 merged, d1 winning
Merge(d1, d2) == d1 @@ d2

Opt(k, S) == {EmptyDict} \cup {k :> v : v \in S}

\* sequences over S of length at most n
SeqsUpTo(S, n) == UNION {[1..k -> S] : k \in 0..n}

Range(s) == {s[i] : i \in DOMAIN s}

NoImage == "null"

\* the database as one value, handed through the steps of a handler
DB == [users |-> users, recipes |-> recipes, tags |-> tags, ingrediants |-> ingrediants,
       recipe_tags |-> recipe_tags, recipe_ingrediants |-> recipe_ingrediants,
       last_id |-> last_id]

DeleteRow(rows, pk) == [id \in DOMAIN rows \ {pk} |-> rows[id]]

\* (mutation) the lookup is by name alone, not by user and name
get_or_create_any_user(rows, last, user, name) ==
    LET found == {id \in DOMAIN rows : rows[id].name = name}
    IN  IF Cardinality(found) > 1
        THEN [raised |-> TRUE, rows |-> rows, last |-> last, obj |-> 0]
        ELSE IF found # {}
        THEN [raised |-> FALSE, rows |-> rows, last |-> last,
              obj |-> CHOOSE id \in found : TRUE]
        ELSE [raised |-> FALSE,
              rows |-> rows @@ ((last + 1) :> [user |-> user, name |-> name]),
              last |-> last + 1, obj |-> last + 1]

\* (mutation) the row is created without looking it up
get_or_create_always_create(rows, last, user, name) ==
    [raised |-> FALSE,
     rows |-> rows @@ ((last + 1) :> [user |-> user, name |-> name]),
     last |-> last + 1, obj |-> last + 1]

(***************************************************************************)
(* QuerySet.get_or_create(user=..., name=...): get() the row matching the  *)
(* lookup, create it when there is none; get() raises                      *)
(* MultipleObjectsReturned when several rows match, and get_or_create      *)
(* lets that through.                                                      *)
(***************************************************************************)
get_or_create(rows, last, user, name) ==
    LET found == {id \in DOMAIN rows :
                    rows[id].user = user /\ rows[id].name = name}
    IN  IF Cardinality(found) > 1
        THEN [raised |-> TRUE, rows |-> rows, last |-> last, obj |-> 0]
        ELSE IF found # {}
        THEN [raised |-> FALSE, rows |-> rows, last |-> last,
              obj |-> CHOOSE id \in found : TRUE]
        ELSE [raised |-> FALSE,
              rows |-> rows @@ ((last + 1) :> [user |-> user, name |-> name]),
              last |-> last + 1, obj |-> last + 1]

(***************************************************************************)
(* RecipeSerializer._get_or_create_tags: for each tag of the payload, in   *)
(* order, get or create the requesting user's row and add it to the        *)
(* recipe (adding a linked row again changes nothing).                     *)
(***************************************************************************)
RECURSIVE get_or_create_tags(_, _, _, _)
get_or_create_tags(tagsData, recipe, auth_user, db) ==
    IF tagsData = <<>>
    THEN [raised |-> FALSE, db |-> db]
    ELSE LET r == get_or_create(db.tags, db.last_id.tag, auth_user,
                                Head(tagsData).name)
         IN  IF r.raised
             THEN [raised |-> TRUE, db |-> db]
             ELSE get_or_create_tags(Tail(tagsData), recipe, auth_user,
                     [db EXCEPT !.tags = r.rows,
                                !.last_id.tag = r.last,
                                !.recipe_tags = @ \cup {<<recipe, r.obj>>}])

\* RecipeSerializer._get_or_create_ingrediants
RECURSIVE get_or_create_ingrediants(_, _, _, _)
get_or_create_ingrediants(ingData, recipe, auth_user, db) ==
    IF ingData = <<>>
    THEN [raised |-> FALSE, db |-> db]
    ELSE LET r == get_or_create(db.ingrediants, db.last_id.ingrediant,
                                auth_user, Head(ingData).name)
         IN  IF r.raised
             THEN [raised |-> TRUE, db |-> db]
             ELSE get_or_create_ingrediants(Tail(ingData), recipe, auth_user,
                     [db EXCEPT !.ingrediants = r.rows,
                                !.last_id.ingrediant = r.last,
                                !.recipe_ingrediants =
                                    @ \cup {<<recipe, r.obj>>}])

\* (mutation) the key popped is never there
PopOr_missing(validated_data, key, default) == default

\* validated_data.pop(key, default)
PopOr(validated_data, key, default) ==
    IF Has(validated_data, key) THEN validated_data[key] ELSE default

(***************************************************************************)
(* RecipeSerializer.create: pop the nested lists (default empty), insert   *)
(* the recipe row, then reconcile tags and ingrediants.                    *)
(***************************************************************************)
create(validated_data, auth_user, db) ==
    LET tagsData == PopOr(validated_data, "tags", <<>>)
        ingData  == PopOr(validated_data, "ingrediants", <<>>)
        fields   == Without(validated_data, {"tags", "ingrediants"})
        pk       == db.last_id.recipe + 1
        db1      == [db EXCEPT
                       !.recipes = @ @@ (pk :> Merge(fields, [image |-> NoImage])),
                       !.last_id.recipe = pk]
        t        == get_or_create_tags(tagsData, pk, auth_user, db1)
        i        == get_or_create_ingrediants(ingData, pk, auth_user, t.db)
    IN  IF t.raised
        THEN [raised |-> TRUE, db |-> t.db, obj |-> pk]
        ELSE [raised |-> i.raised, db |-> i.db, obj |-> pk]

\* validated_data.pop(key, None): None, or the value (boxed, so that an
\* empty list is told from None)
None == <<>>

\* (mutation) a missing list is popped as the empty list, as create does
Pop_default_empty(validated_data, key) ==
    IF Has(validated_data, key) THEN <<validated_data[key]>> ELSE <<<<>>>>

Pop(validated_data, key) ==
    IF Has(validated_data, key) THEN <<validated_data[key]>> ELSE None

\* (mutation) the links are not cleared
Clear_nothing(links, pk) == links

\* (mutation) the links of every recipe are cleared
Clear_every_recipe(links, pk) == {}

\* instance.tags.clear() / instance.ingrediants.clear()
Clear(links, pk) == {l \in links : l[1] # pk}

\* the setattr loop of update and the save: every key of validated_data
\* is assigned to the row
SetAttrs(instance, validated_data) ==
    [f \in DOMAIN instance |->
        IF Has(validated_data, f) THEN validated_data[f] ELSE instance[f]]

(***************************************************************************)
(* RecipeSerializer.update: a nested list that is present (also when       *)
(* empty) replaces the links: clear, then reconcile; then the other        *)
(* fields are assigned and the row is saved.                               *)
(***************************************************************************)
update(pk, validated_data, auth_user, db) ==
    LET tagsData == Pop(validated_data, "tags")
        ingData  == Pop(validated_data, "ingrediants")
        fields   == Without(validated_data, {"tags", "ingrediants"})
        t        == IF tagsData # None
                    THEN get_or_create_tags(tagsData[1], pk, auth_user,
                            [db EXCEPT !.recipe_tags = Clear(@, pk)])
                    ELSE [raised |-> FALSE, db |-> db]
        i        == IF ingData # None
                    THEN get_or_create_ingrediants(ingData[1], pk, auth_user,
                            [t.db EXCEPT !.recipe_ingrediants = Clear(@, pk)])
                    ELSE [raised |-> FALSE, db |-> t.db]
    IN  IF t.raised
        THEN [raised |-> TRUE, db |-> t.db]
        ELSE IF i.raised
        THEN [raised |-> TRUE, db |-> i.db]
        ELSE [raised |-> FALSE,
              db |-> [i.db EXCEPT !.recipes[pk] = SetAttrs(@, fields)]]

(***************************************************************************)
(* Query strings are sequences of characters.                              *)
(***************************************************************************)
Digits == {"0", "1", "2", "3", "4", "5", "6", "7", "8", "9"}

DigitVal(c) ==
    CASE c = "0" -> 0 [] c = "1" -> 1 [] c = "2" -> 2 [] c = "3" -> 3
      [] c = "4" -> 4 [] c = "5" -> 5 [] c = "6" -> 6 [] c = "7" -> 7
      [] c = "8" -> 8 [] c = "9" -> 9

\* str.split(','): the pieces between the commas, empty pieces included
RECURSIVE Split(_)
Split(s) ==
    IF \A k \in DOMAIN s : s[k] # ","
    THEN <<s>>
    ELSE LET k == CHOOSE j \in DOMAIN s :
                      s[j] = "," /\ \A h \in 1..(j - 1) : s[h] # ","
         IN  <<SubSeq(s, 1, k - 1)>> \o Split(SubSeq(s, k + 1, Len(s)))

\* str.strip(): without the blanks at both ends
RECURSIVE Strip(_)
Strip(s) ==
    IF s = <<>> THEN s
    ELSE IF Head(s) = " " THEN Strip(Tail(s))
    ELSE IF s[Len(s)] = " " THEN Strip(SubSeq(s, 1, Len(s) - 1))
    ELSE s

\* int(str) accepts a non-empty run of digits (ValueError otherwise)
IsInt(s) == s # <<>> /\ \A k \in DOMAIN s : s[k] \in Digits

RECURSIVE ToInt(_)
ToInt(s) ==
    IF s = <<>> THEN 0
    ELSE 10 * ToInt(SubSeq(s, 1, Len(s) - 1)) + DigitVal(s[Len(s)])

\* RecipeViewSet._params_to_list_of_int
params_to_list_of_int(params) ==
    LET toks == [k \in DOMAIN Split(params) |-> Strip(Split(params)[k])]
    IN  IF \E k \in DOMAIN toks : ~IsInt(toks[k])
        THEN [raised |-> TRUE, ids |-> <<>>]
        ELSE [raised |-> FALSE, ids |-> [k \in DOMAIN toks |-> ToInt(toks[k])]]

(***************************************************************************)
(* Querysets.  A queryset is the set of rows of the SQL join built so far; *)
(* a filter across a many-to-many relation joins the link table, so a row  *)
(* of the base table occurs once per matching link until distinct().       *)
(***************************************************************************)
\* order_by on an integer key, descending; rows with equal keys in some order
RECURSIVE OrderByDesc(_, _)
OrderByDesc(rows, key) ==
    IF rows = {} THEN <<>>
    ELSE LET top == CHOOSE r \in rows : \A q \in rows : key[q.id] <= key[r.id]
         IN  <<top>> \o OrderByDesc(rows \ {top}, key)

\* (mutation) no distinct()
Distinct_missing(ids) == ids

\* SELECT DISTINCT on the columns of the base table: the ids, each once
RECURSIVE Distinct(_)
Distinct(ids) ==
    IF ids = <<>> THEN <<>>
    ELSE LET rest == Distinct(SubSeq(ids, 1, Len(ids) - 1))
         IN  IF ids[Len(ids)] \in Range(rest)
             THEN rest ELSE Append(rest, ids[Len(ids)])

Project(rowSeq) == [k \in DOMAIN rowSeq |-> rowSeq[k].id]

\* (mutation) the queryset is not restricted to the requesting user
FilterUser_unscoped(q, rows, auth_user) == q

\* queryset.filter(user=self.request.user)
FilterUser(q, rows, auth_user) == {x \in q : rows[x.id].user = auth_user}

\* (mutation) any link matches, whatever its id
FilterLinkedIn_any_id(q, links, ids) ==
    {<<x, l>> \in q \X links : l[1] = x.id}

\* queryset.filter(tags__id__in=ids) / filter(ingrediants__id__in=ids):
\* the join with the link table, one row per link to one of the ids
FilterLinkedIn(q, links, ids) ==
    {<<x, l>> \in q \X links : l[1] = x.id /\ l[2] \in ids}

\* RecipeViewSet.get_queryset
RecipeViewSet_get_queryset(auth_user, query_params, db) ==
    LET tagsP == IF Has(query_params, "tags")
                 THEN query_params.tags ELSE <<>>
        ingsP == IF Has(query_params, "ingrediants")
                 THEN query_params.ingrediants ELSE <<>>
        tag_ids == params_to_list_of_int(tagsP)
        ingrediants_ids == params_to_list_of_int(ingsP)
        q0 == {[id |-> r, tag |-> 0, ing |-> 0] : r \in DOMAIN db.recipes}
        q1 == IF tagsP # <<>>
              THEN {[id |-> j[1].id, tag |-> j[2][2], ing |-> j[1].ing] :
                       j \in FilterLinkedIn(q0, db.recipe_tags,
                                            Range(tag_ids.ids))}
              ELSE q0
        q2 == IF ingsP # <<>>
              THEN {[id |-> j[1].id, tag |-> j[1].tag, ing |-> j[2][2]] :
                       j \in FilterLinkedIn(q1, db.recipe_ingrediants,
                                            Range(ingrediants_ids.ids))}
              ELSE q1
        q3 == FilterUser(q2, db.recipes, auth_user)
        key == [r \in DOMAIN db.recipes |-> r]
    IN  IF (tagsP # <<>> /\ tag_ids.raised)
           \/ (ingsP # <<>> /\ ingrediants_ids.raised)
        THEN [raised |-> TRUE, rows |-> <<>>]
        ELSE [raised |-> FALSE,
              rows |-> Distinct(Project(OrderByDesc(q3, key)))]

\* the collation order of the names
NameRank(n) == CASE n = "a" -> 1 [] n = "b" -> 2 [] OTHER -> 3

\* BaseRecipeAttrViewSet.get_queryset, over the rows and the link table of
\* Tag or of Ingrediant
BaseRecipeAttrViewSet_get_queryset(auth_user, query_params, rows, links) ==
    LET param == IF Has(query_params, "assigned_only")
                 THEN Strip(query_params.assigned_only) ELSE <<"0">>
        assigned_only == ToInt(param) # 0
        q0 == {[id |-> t, recipe |-> 0] : t \in DOMAIN rows}
        q1 == IF assigned_only
              THEN {[id |-> l[2], recipe |-> l[1]] : l \in links}
              ELSE q0
        q2 == FilterUser(q1, rows, auth_user)
        key == [t \in DOMAIN rows |-> NameRank(rows[t].name)]
    IN  IF ~IsInt(param)
        THEN [raised |-> TRUE, rows |-> <<>>]
        ELSE [raised |-> FALSE,
              rows |-> Distinct(Project(OrderByDesc(q2, key)))]

(***************************************************************************)
(* Users.  An email is a sequence of characters; a stored password is the  *)
(* hash of the raw one, or the unusable password.                          *)
(***************************************************************************)
\* str.lower(), on the letters of the model
Lower(c) == IF c = "A" THEN "a" ELSE c

\* the position of the last "@" of s, 0 when it has none
LastAt(s) ==
    IF \A k \in DOMAIN s : s[k] # "@" THEN 0
    ELSE CHOOSE k \in DOMAIN s :
            s[k] = "@" /\ \A j \in DOMAIN s : s[j] = "@" => j <= k

\* (mutation) the whole address is lowercased
normalize_email_all_lower(email) == [k \in DOMAIN email |-> Lower(email[k])]

\* BaseUserManager.normalize_email: email.strip().rsplit("@", 1), the domain
\* part lowercased; an address without "@" is returned as it came
normalize_email(email) ==
    LET stripped == Strip(email)
        at == LastAt(stripped)
    IN  IF at = 0 THEN email
        ELSE SubSeq(stripped, 1, at - 1) \o <<"@">>
             \o [k \in 1..(Len(stripped) - at) |-> Lower(stripped[at + k])]

UNUSABLE_PASSWORD == <<"!">>

\* make_password: the hash of a raw password; of None, the unusable one
make_password(password) ==
    IF password = None THEN UNUSABLE_PASSWORD ELSE <<"pbkdf2", password[1]>>

\* check_password
check_password(password, encoded) == encoded = <<"pbkdf2", password>>

\* the defaults of the columns of User
UserDefaults ==
    [email |-> <<>>, password |-> UNUSABLE_PASSWORD, name |-> "",
     is_staff |-> FALSE, is_superuser |-> FALSE, is_active |-> TRUE]

\* email is unique=True: no other row holds the address
EmailFree(rows, pk, email) ==
    \A o \in DOMAIN rows \ {pk} : rows[o].email # email

\* UserManager.create_user: ValueError on an empty email, else the row is
\* built with the normalised email and the hashed password and inserted
\* (IntegrityError when the email is taken)
create_user(email, password, extra_fields, db) ==
    LET pk == db.last_id.user + 1
        user == [Merge(extra_fields, UserDefaults) EXCEPT
                   !.email = normalize_email(email),
                   !.password = make_password(password)]
    IN  IF email = <<>>
        THEN [raised |-> TRUE, obj |-> 0, db |-> db]
        ELSE IF ~EmailFree(db.users, pk, user.email)
        THEN [raised |-> TRUE, obj |-> 0, db |-> db]
        ELSE [raised |-> FALSE, obj |-> pk,
              db |-> [db EXCEPT !.users = @ @@ (pk :> user),
                                !.last_id.user = pk]]

\* UserManager.create_superuser
create_superuser(email, password, db) ==
    LET res == create_user(email, <<password>>, EmptyDict, db)
    IN  IF res.raised THEN res
        ELSE [res EXCEPT !.db.users[res.obj].is_staff = TRUE,
                         !.db.users[res.obj].is_superuser = TRUE]

\* (mutation) the rows of a deleted user are left behind
DO_NOTHING(rows, user) == {}

\* on_delete=models.CASCADE of Recipe.user, Tag.user, Ingrediant.user: the
\* rows deleted with the user
CASCADE(rows, user) == {id \in DOMAIN rows : rows[id].user = user}

DeleteRows(rows, pks) == [id \in DOMAIN rows \ pks |-> rows[id]]

\* (mutation) the tags and ingrediants of the recipe are deleted with it
Recipe_delete_linked(pk, db) ==
    [db EXCEPT
       !.recipes = DeleteRow(@, pk),
       !.tags = DeleteRows(@, {l[2] : l \in {m \in db.recipe_tags : m[1] = pk}}),
       !.ingrediants = DeleteRows(@,
            {l[2] : l \in {m \in db.recipe_ingrediants : m[1] = pk}}),
       !.recipe_tags = {l \in @ : l[1] # pk},
       !.recipe_ingrediants = {l \in @ : l[1] # pk}]

\* Recipe.delete(): the row and its rows in the two link tables
Recipe_delete(pk, db) ==
    [db EXCEPT
       !.recipes = DeleteRow(@, pk),
       !.recipe_tags = {l \in @ : l[1] # pk},
       !.recipe_ingrediants = {l \in @ : l[1] # pk}]

\* User.delete(): the row, the recipes, tags and ingrediants that cascade
\* from it, and the link rows of those
User_delete(pk, db) ==
    LET rs == CASCADE(db.recipes, pk)
        ts == CASCADE(db.tags, pk)
        is == CASCADE(db.ingrediants, pk)
    IN  [db EXCEPT
           !.users = DeleteRow(@, pk),
           !.recipes = DeleteRows(@, rs),
           !.tags = DeleteRows(@, ts),
           !.ingrediants = DeleteRows(@, is),
           !.recipe_tags = {l \in @ : l[1] \notin rs /\ l[2] \notin ts},
           !.recipe_ingrediants = {l \in @ : l[1] \notin rs /\ l[2] \notin is}]

(***************************************************************************)
(* Serializers: what a response shows of a row.                            *)
(***************************************************************************)
\* TagSerializer / IngrediantSerializer: id and name
AttrSerializer(rows, pk) == [id |-> pk, name |-> rows[pk].name]

\* RecipeSerializer / RecipeDetailSerializer: the fields and the nested
\* tags and ingrediants of the recipe
RecipeSerializer(db, pk) ==
    [id |-> pk,
     title |-> db.recipes[pk].title,
     image |-> db.recipes[pk].image,
     tags |-> {AttrSerializer(db.tags, l[2]) :
                  l \in {m \in db.recipe_tags : m[1] = pk}},
     ingrediants |-> {AttrSerializer(db.ingrediants, l[2]) :
                  l \in {m \in db.recipe_ingrediants : m[1] = pk}}]

\* (mutation) user is writable
RecipeReadOnlyFields_user_writable == {"id"}

\* read_only_fields of RecipeSerializer: dropped from validated_data
RecipeReadOnlyFields == {"id", "user"}

\* read_only_fields of TagSerializer / IngrediantSerializer
AttrReadOnlyFields == {"id"}

\* (mutation) the owner is a field of the serializer
AttrSerializer_fields_with_user == {"id", "name", "user"}

\* fields of TagSerializer / IngrediantSerializer: a key of the payload
\* that is no field is ignored
AttrSerializer_fields == {"id", "name"}

\* the validated data of a tag or ingrediant payload
AttrValidated(data) ==
    [k \in (DOMAIN data \cap AttrSerializer_fields) \ AttrReadOnlyFields |->
        data[k]]

\* RecipeViewSet.perform_create: serializer.save(user=self.request.user)
perform_create(auth_user, validated_data, db) ==
    create(Merge("user" :> auth_user, validated_data), auth_user, db)

(***************************************************************************)
(* Handlers: request and database in, response and database out.           *)
(***************************************************************************)
Response(status, body, db) == [status |-> status, body |-> body, db |-> db]

\* GET /recipes: RecipeViewSet.list
RecipeViewSet_list(u, params, db) ==
    LET qs == RecipeViewSet_get_queryset(u, params, db)
    IN  IF qs.raised
        THEN Response(500, <<>>, db)
        ELSE Response(200,
                 [k \in DOMAIN qs.rows |-> RecipeSerializer(db, qs.rows[k])],
                 db)

\* GET /recipes/{pk}: RecipeViewSet.retrieve
RecipeViewSet_retrieve(u, pk, db) ==
    LET qs == RecipeViewSet_get_queryset(u, EmptyDict, db)
    IN  IF pk \notin Range(qs.rows)
        THEN Response(404, <<>>, db)
        ELSE Response(200, <<RecipeSerializer(db, pk)>>, db)

\* POST /recipes: RecipeViewSet.create
RecipeViewSet_create(u, data, db) ==
    LET validated_data == Without(data, RecipeReadOnlyFields)
        res == perform_create(u, validated_data, db)
    IN  IF ~Has(data, "title")
        THEN Response(400, <<>>, db)
        ELSE IF res.raised
        THEN Response(500, <<>>, res.db)
        ELSE Response(201, <<RecipeSerializer(res.db, res.obj)>>, res.db)

\* PUT / PATCH /recipes/{pk}: RecipeViewSet.update / partial_update
RecipeViewSet_update(u, pk, data, partial, db) ==
    LET qs == RecipeViewSet_get_queryset(u, EmptyDict, db)
        validated_data == Without(data, RecipeReadOnlyFields)
        res == update(pk, validated_data, u, db)
    IN  IF pk \notin Range(qs.rows)
        THEN Response(404, <<>>, db)
        ELSE IF ~partial /\ ~Has(data, "title")
        THEN Response(400, <<>>, db)
        ELSE IF res.raised
        THEN Response(500, <<>>, res.db)
        ELSE Response(200, <<RecipeSerializer(res.db, pk)>>, res.db)

\* DELETE /recipes/{pk}: RecipeViewSet.destroy
RecipeViewSet_destroy(u, pk, db) ==
    LET qs == RecipeViewSet_get_queryset(u, EmptyDict, db)
    IN  IF pk \notin Range(qs.rows)
        THEN Response(404, <<>>, db)
        ELSE Response(204, <<>>, Recipe_delete(pk, db))

\* POST /recipes/{pk}/upload-image: RecipeViewSet.upload_image
RecipeViewSet_upload_image(u, pk, data, db) ==
    LET qs == RecipeViewSet_get_queryset(u, EmptyDict, db)
    IN  IF pk \notin Range(qs.rows)
        THEN Response(404, <<>>, db)
        ELSE IF ~(Has(data, "image") /\ data.image \in Images)
        THEN Response(400, <<>>, db)
        ELSE Response(200, <<[id |-> pk, image |-> data.image]>>,
                 [db EXCEPT !.recipes[pk].image = data.image])

\* GET /tags, GET /ingrediants: BaseRecipeAttrViewSet (ListModelMixin)
BaseRecipeAttrViewSet_list(u, params, rows, links, db) ==
    LET qs == BaseRecipeAttrViewSet_get_queryset(u, params, rows, links)
    IN  IF qs.raised
        THEN Response(500, <<>>, db)
        ELSE Response(200,
                 [k \in DOMAIN qs.rows |-> AttrSerializer(rows, qs.rows[k])],
                 db)

TagViewSet_list(u, params, db) ==
    BaseRecipeAttrViewSet_list(u, params, db.tags, db.recipe_tags, db)

IngrediantsViewSet_list(u, params, db) ==
    BaseRecipeAttrViewSet_list(u, params, db.ingrediants,
                               db.recipe_ingrediants, db)

\* PUT / PATCH /tags/{pk}: TagViewSet (UpdateModelMixin)
TagViewSet_update(u, pk, data, partial, db) ==
    LET qs == BaseRecipeAttrViewSet_get_queryset(u, EmptyDict, db.tags,
                                                 db.recipe_tags)
        validated_data == AttrValidated(data)
        db1 == [db EXCEPT !.tags[pk] = SetAttrs(@, validated_data)]
    IN  IF pk \notin Range(qs.rows)
        THEN Response(404, <<>>, db)
        ELSE IF ~partial /\ ~Has(data, "name")
        THEN Response(400, <<>>, db)
        ELSE Response(200, <<AttrSerializer(db1.tags, pk)>>, db1)

\* DELETE /tags/{pk}: TagViewSet (DestroyModelMixin)
TagViewSet_destroy(u, pk, db) ==
    LET qs == BaseRecipeAttrViewSet_get_queryset(u, EmptyDict, db.tags,
                                                 db.recipe_tags)
    IN  IF pk \notin Range(qs.rows)
        THEN Response(404, <<>>, db)
        ELSE Response(204, <<>>,
                 [db EXCEPT !.tags = DeleteRow(@, pk),
                            !.recipe_tags = {l \in @ : l[2] # pk}])

\* PUT / PATCH /ingrediants/{pk}: IngrediantsViewSet (UpdateModelMixin)
IngrediantsViewSet_update(u, pk, data, partial, db) ==
    LET qs == BaseRecipeAttrViewSet_get_queryset(u, EmptyDict, db.ingrediants,
                                                 db.recipe_ingrediants)
        validated_data == AttrValidated(data)
        db1 == [db EXCEPT !.ingrediants[pk] = SetAttrs(@, validated_data)]
    IN  IF pk \notin Range(qs.rows)
        THEN Response(404, <<>>, db)
        ELSE IF ~partial /\ ~Has(data, "name")
        THEN Response(400, <<>>, db)
        ELSE Response(200, <<AttrSerializer(db1.ingrediants, pk)>>, db1)

\* DELETE /ingrediants/{pk}: IngrediantsViewSet (DestroyModelMixin)
IngrediantsViewSet_destroy(u, pk, db) ==
    LET qs == BaseRecipeAttrViewSet_get_queryset(u, EmptyDict, db.ingrediants,
                                                 db.recipe_ingrediants)
    IN  IF pk \notin Range(qs.rows)
        THEN Response(404, <<>>, db)
        ELSE Response(204, <<>>,
                 [db EXCEPT !.ingrediants = DeleteRow(@, pk),
                            !.recipe_ingrediants = {l \in @ : l[2] # pk}])

(***************************************************************************)
(* The user serializers.                                                   *)
(***************************************************************************)
\* UserSerializer.Meta: fields and extra_kwargs
UserSerializer_fields == {"id", "is_staff", "email", "password", "name"}
\* (mutation) is_staff is not read-only
UserSerializer_read_only_id == {"id"}

UserSerializer_read_only == {"id", "is_staff"}
UserSerializer_write_only == {"password"}
UserSerializer_min_length == 5

\* AdminDashboardSerializer.Meta: fields = "__all__", and no extra_kwargs
\* (the Meta does not extend UserSerializer.Meta); last_login, groups and
\* user_permissions are not modelled
AdminDashboardSerializer_fields ==
    {"id", "password", "is_superuser", "email", "name", "is_active", "is_staff"}
AdminDashboardSerializer_read_only == {"id"}
AdminDashboardSerializer_write_only == {}
AdminDashboardSerializer_min_length == 1

\* the fields a payload must give unless the update is partial
UserRequired == {"email", "password", "name"}

\* EmailField: something, one "@", something, and no blank
IsEmail(e) ==
    /\ Cardinality({k \in DOMAIN e : e[k] = "@"}) = 1
    /\ \A k \in DOMAIN e : e[k] # " "
    /\ e # <<>> /\ e[1] # "@" /\ e[Len(e)] # "@"

\* Serializer.is_valid: read-only and unknown fields are dropped, the email
\* is trimmed; required fields, the form of the email, its uniqueness
\* (UniqueValidator on the value as given, the instance itself excluded)
\* and the length of the password are checked
run_validation(data, partial, instance, db, fields, read_only, min_length) ==
    LET given == [k \in (DOMAIN data \cap fields) \ read_only |->
                     IF k = "email" THEN Strip(data[k]) ELSE data[k]]
    IN  [validated_data |-> given,
         valid |->
            /\ ~partial => UserRequired \subseteq DOMAIN given
            /\ Has(given, "email") =>
                  /\ IsEmail(given.email)
                  /\ EmailFree(db.users, instance, given.email)
            /\ Has(given, "password") => Len(given.password) >= min_length]

\* Serializer.data: the fields that are not write-only
to_representation(db, pk, fields, write_only) ==
    [k \in fields \ write_only |-> IF k = "id" THEN pk ELSE db.users[pk][k]]

\* UserSerializer.create
UserSerializer_create(validated_data, db) ==
    create_user(validated_data.email, <<validated_data.password>>,
                Without(validated_data, {"email", "password"}), db)

\* UserSerializer.update: the password is popped, the other fields are
\* assigned and saved, then the password, if any, is hashed and saved
UserSerializer_update(pk, validated_data, db) ==
    LET password == Pop(validated_data, "password")
        db1 == [db EXCEPT !.users[pk] =
                   SetAttrs(@, Without(validated_data, {"password"}))]
    IN  IF password # None /\ password[1] # ""
        THEN [db1 EXCEPT !.users[pk].password = make_password(password)]
        ELSE db1

(***************************************************************************)
(* The user views.                                                         *)
(***************************************************************************)
\* POST create/: CreateUserView (CreateAPIView)
CreateUserView_create(data, db) ==
    LET v == run_validation(data, FALSE, 0, db, UserSerializer_fields,
                            UserSerializer_read_only, UserSerializer_min_length)
        res == UserSerializer_create(v.validated_data, db)
    IN  IF ~v.valid THEN Response(400, <<>>, db)
        ELSE IF res.raised THEN Response(500, <<>>, res.db)
        ELSE Response(201,
                 <<to_representation(res.db, res.obj, UserSerializer_fields,
                                     UserSerializer_write_only)>>, res.db)

\* POST token/: CreateAuthTokenView with AuthTokenSerializer.validate; the
\* token of a user is modelled by the id of the user
CreateAuthTokenView_post(data, db) ==
    LET found == {pk \in DOMAIN db.users :
                     /\ Has(data, "email") /\ Has(data, "password")
                     /\ db.users[pk].email = data.email
                     /\ check_password(data.password, db.users[pk].password)
                     /\ db.users[pk].is_active}
    IN  IF found = {} THEN Response(400, <<>>, db)
        ELSE Response(200, <<[token |-> CHOOSE pk \in found : TRUE]>>, db)

\* GET me/: ManageUserView (RetrieveUpdateAPIView), get_object is the user
ManageUserView_retrieve(u, db) ==
    Response(200, <<to_representation(db, u, UserSerializer_fields,
                                      UserSerializer_write_only)>>, db)

\* PUT / PATCH me/: ManageUserView
ManageUserView_update(u, data, partial, db) ==
    LET v == run_validation(data, partial, u, db, UserSerializer_fields,
                            UserSerializer_read_only, UserSerializer_min_length)
        db1 == UserSerializer_update(u, v.validated_data, db)
    IN  IF ~v.valid THEN Response(400, <<>>, db)
        ELSE Response(200,
                 <<to_representation(db1, u, UserSerializer_fields,
                                     UserSerializer_write_only)>>, db1)

\* order_by('id')
RECURSIVE OrderById(_)
OrderById(ids) ==
    IF ids = {} THEN <<>>
    ELSE LET first == CHOOSE x \in ids : \A y \in ids : x <= y
         IN  <<first>> \o OrderById(ids \ {first})

\* StandardResultsSetPagination.page_size
page_size == 2

\* GET admin/users/: AdminUserView.list, one page of the users by id
AdminUserView_list(page, db) ==
    LET ids == OrderById(DOMAIN db.users)
        rows == SubSeq(ids, (page - 1) * page_size + 1,
                       IF page * page_size < Len(ids)
                       THEN page * page_size ELSE Len(ids))
    IN  IF page > 1 /\ rows = <<>> THEN Response(404, <<>>, db)
        ELSE Response(200,
                 [k \in DOMAIN rows |->
                     to_representation(db, rows[k],
                         AdminDashboardSerializer_fields,
                         AdminDashboardSerializer_write_only)], db)

\* GET admin/users/{pk}/: AdminUserView.retrieve
AdminUserView_retrieve(pk, db) ==
    IF pk \notin DOMAIN db.users THEN Response(404, <<>>, db)
    ELSE Response(200,
             <<to_representation(db, pk, AdminDashboardSerializer_fields,
                                 AdminDashboardSerializer_write_only)>>, db)

\* POST admin/users/: AdminUserView.create
AdminUserView_create(data, db) ==
    LET v == run_validation(data, FALSE, 0, db,
                            AdminDashboardSerializer_fields,
                            AdminDashboardSerializer_read_only,
                            AdminDashboardSerializer_min_length)
        res == UserSerializer_create(v.validated_data, db)
    IN  IF ~v.valid THEN Response(400, <<>>, db)
        ELSE IF res.raised THEN Response(500, <<>>, res.db)
        ELSE Response(201,
                 <<to_representation(res.db, res.obj,
                                     AdminDashboardSerializer_fields,
                                     AdminDashboardSerializer_write_only)>>,
                 res.db)

\* PUT / PATCH admin/users/{pk}/: AdminUserView.update
AdminUserView_update(pk, data, partial, db) ==
    LET v == run_validation(data, partial, pk, db,
                            AdminDashboardSerializer_fields,
                            AdminDashboardSerializer_read_only,
                            AdminDashboardSerializer_min_length)
        db1 == UserSerializer_update(pk, v.validated_data, db)
    IN  IF pk \notin DOMAIN db.users THEN Response(404, <<>>, db)
        ELSE IF ~v.valid THEN Response(400, <<>>, db)
        ELSE Response(200,
                 <<to_representation(db1, pk, AdminDashboardSerializer_fields,
                                     AdminDashboardSerializer_write_only)>>,
                 db1)

\* DELETE admin/users/{pk}/: AdminUserView.destroy
AdminUserView_destroy(pk, db) ==
    IF pk \notin DOMAIN db.users THEN Response(404, <<>>, db)
    ELSE Response(204, <<>>, User_delete(pk, db))

\* the password send_email draws: str(uuid.uuid4())[:10]
new_pass == "uuid4"

\* POST resetpass/: send_email sets a new password on the user of the
\* email and mails it
send_email(data, db) ==
    LET email == IF Has(data, "email") THEN data.email ELSE <<>>
        found == {pk \in DOMAIN db.users : db.users[pk].email = email}
    IN  IF email = <<>> \/ found = {} THEN Response(400, <<>>, db)
        ELSE Response(200, <<>>,
                 [db EXCEPT !.users[CHOOSE pk \in found : TRUE].password =
                               make_password(<<new_pass>>)])

(***************************************************************************)
(* Authentication and permissions (APIView.initial, APIView.dispatch).     *)
(***************************************************************************)
AnonymousUser == 0

\* a request without an Authorization header
NoToken == 0

\* TokenAuthentication.authenticate: no header authenticates nobody; the
\* token of a deleted or inactive user fails
TokenAuthentication(token, db) ==
    IF token = NoToken THEN [failed |-> FALSE, user |-> AnonymousUser]
    ELSE IF token \notin DOMAIN db.users THEN [failed |-> TRUE, user |-> AnonymousUser]
    ELSE IF ~db.users[token].is_active THEN [failed |-> TRUE, user |-> AnonymousUser]
    ELSE [failed |-> FALSE, user |-> token]

\* (mutation) every permission is granted
has_permission_AllowAny(permission, user, db) == TRUE

\* IsAuthenticated.has_permission, IsAdminUser.has_permission
has_permission(permission, user, db) ==
    CASE permission = "IsAuthenticated" -> user # AnonymousUser
      [] permission = "IsAdminUser" ->
            user # AnonymousUser /\ db.users[user].is_staff

\* permission_classes of the views; CreateUserView, CreateAuthTokenView and
\* send_email declare none
RecipeViewSet_permission_classes == {"IsAuthenticated"}
BaseRecipeAttrViewSet_permission_classes == {"IsAuthenticated"}
ManageUserView_permission_classes == {"IsAuthenticated"}
AdminUserView_permission_classes == {"IsAdminUser"}

\* APIView.initial: 401 when authentication fails or nobody is
\* authenticated and a permission refuses, 403 when a permission refuses
\* an authenticated user
initial(token, permission_classes, db) ==
    LET auth == TokenAuthentication(token, db)
    IN  IF auth.failed THEN [status |-> 401, user |-> AnonymousUser]
        ELSE IF \A p \in permission_classes : has_permission(p, auth.user, db)
        THEN [status |-> 200, user |-> auth.user]
        ELSE IF auth.user = AnonymousUser
        THEN [status |-> 401, user |-> AnonymousUser]
        ELSE [status |-> 403, user |-> auth.user]

\* APIView.dispatch: the request passes initial, then the handler runs for
\* the authenticated user
dispatch(token, permission_classes, db, response) ==
    LET entry == initial(token, permission_classes, db)
    IN  IF entry.status # 200 THEN Response(entry.status, <<>>, db)
        ELSE response

\* (mutation) every write of a request is committed as it is made
make_view_autocommit(db, response) == response

\* (mutation) no transaction around a request
AUTOCOMMIT == FALSE

\* every request runs in one database transaction of the framework
ATOMIC_REQUESTS == TRUE

\* the transaction around a view: a request that ends in an exception
\* leaves the database as it found it
make_view_atomic(db, response) ==
    IF ATOMIC_REQUESTS /\ response.status >= 500
    THEN [response EXCEPT !.db = db]
    ELSE response

\* the views as routed by recipe/urls.py and user/urls.py, each with the
\* permission_classes of its class
RecipeViewSet_as_view(token, db, response) ==
    make_view_atomic(db,
        dispatch(token, RecipeViewSet_permission_classes, db, response))

TagViewSet_as_view(token, db, response) ==
    make_view_atomic(db,
        dispatch(token, BaseRecipeAttrViewSet_permission_classes, db, response))

IngrediantsViewSet_as_view(token, db, response) ==
    make_view_atomic(db,
        dispatch(token, BaseRecipeAttrViewSet_permission_classes, db, response))

ManageUserView_as_view(token, db, response) ==
    make_view_atomic(db,
        dispatch(token, ManageUserView_permission_classes, db, response))

AdminUserView_as_view(token, db, response) ==
    make_view_atomic(db,
        dispatch(token, AdminUserView_permission_classes, db, response))

(***************************************************************************)
(* Requests.                                                               *)
(***************************************************************************)
TagData == SeqsUpTo([name : Names], MaxPayloadLen)

NestedLen(d) ==
    (IF Has(d, "tags") THEN Len(d.tags) ELSE 0)
    + (IF Has(d, "ingrediants") THEN Len(d.ingrediants) ELSE 0)

\* the nested lists of one payload hold at most MaxPayloadLen names in all
NestedPayloads ==
    {d \in {Merge(tg, ig) : tg \in Opt("tags", TagData),
                            ig \in Opt("ingrediants", TagData)} :
        NestedLen(d) <= MaxPayloadLen}

\* what a payload carries besides the title: nested lists, or the read-only
\* user field
PayloadRest == NestedPayloads \cup Opt("user", Users)

TitledPayloads == {Merge("title" :> t, x) : t \in Titles, x \in PayloadRest}

\* POST and PUT require the title: a payload without it is answered 400
\* whatever else it carries
RecipePayloads == TitledPayloads \cup {EmptyDict}

\* PATCH requires no field
RecipePatchPayloads == PayloadRest \cup {"title" :> t : t \in Titles}

UpdatePayloads(partial) ==
    IF partial THEN RecipePatchPayloads ELSE RecipePayloads

AttrPayloads == Opt("name", Names)

\* PUT / PATCH payloads of a tag or an ingrediant: a name or none, alone
\* or with a user or an id
AttrUpdatePayloads ==
    {Merge(n, x) : n \in AttrPayloads,
                   x \in Opt("user", Users) \cup Opt("id", {1, 2})}

ImagePayloads == Opt("image", Images \cup {"not an image"})

FilterParams == {<<"1">>, <<" ", "2">>, <<"1", ",", "2">>, <<"x">>}

\* one filter with any of the strings, or both with ids
RecipeQueryParams ==
    Opt("tags", FilterParams) \cup Opt("ingrediants", FilterParams)
    \cup {Merge("tags" :> t, "ingrediants" :> i) :
            t \in {<<"1">>, <<"1", ",", "2">>},
            i \in {<<"1">>, <<"1", ",", "2">>}}

AttrQueryParams == Opt("assigned_only", {<<"0">>, <<"1">>, <<"x">>})

\* the addresses of the user requests: two that differ in the case of the
\* domain, one that differs in the local part
Emails == {<<"A", "@", "A">>, <<"A", "@", "a">>, <<"a", "@", "a">>}

\* one password shorter than UserSerializer_min_length, one long enough
Passwords == {"1234", "12345"}

\* the strings create_user is called with: up to MaxEmailLen characters
\* of a letter, the at sign and the blank
EmailStrings == SeqsUpTo({"A", "@", " "}, MaxEmailLen)

\* POST create/, PUT me/, POST admin/users/, PUT admin/users/{pk}/: the
\* fields of UserSerializer, none of them, or an empty email, or with the
\* read-only is_staff
UserPayloads ==
    {[email |-> e, password |-> p, name |-> "n"] :
        e \in Emails, p \in Passwords}
    \cup {EmptyDict,
          [email |-> <<>>, password |-> "12345", name |-> "n"],
          [email |-> <<"a", "@", "a">>, password |-> "12345", name |-> "n",
           is_staff |-> TRUE]}

\* PATCH me/, PATCH admin/users/{pk}/: one field
UserPatchPayloads ==
    Opt("email", Emails) \cup Opt("password", Passwords)
    \cup Opt("is_staff", BOOLEAN) \cup Opt("is_active", {FALSE})

UserUpdatePayloads(partial) ==
    IF partial THEN UserPatchPayloads ELSE UserPayloads

\* POST token/
TokenPayloads == {[email |-> e, password |-> p] : e \in Emails, p \in Passwords}

\* POST resetpass/
ResetPayloads == Opt("email", Emails)

\* GET admin/users/?page=
Pages == {1, 2}

UserIds == 1..MaxUsers

\* the recipe a user of the user endpoints creates
OwnRecipePayloads ==
    {[title |-> "t1", tags |-> <<[name |-> "a"]>>,
      ingrediants |-> <<[name |-> "a"]>>]}

\* what a request carries as its credentials: the token of a user, or none
Tokens == Users \cup {NoToken}

RecipeIds == 1..MaxRecipes
TagIds == 1..MaxTags
IngrediantIds == 1..MaxIngrediants

(***************************************************************************)
(* The state machine.                                                      *)
(***************************************************************************)
\* the workers of the server that handle requests at the same time
Procs == {1, 2}

\* a worker between two requests
Idle ==
    [pc |-> "idle", status |-> 0, user |-> 0, recipe |-> 0, clears |-> FALSE,
     tags |-> None, ingrediants |-> None, fields |-> EmptyDict,
     table |-> "tags", rest |-> <<>>, obj |-> 0, log |-> <<>>, made |-> {}]

Commit(db) ==
    /\ users' = db.users
    /\ recipes' = db.recipes
    /\ tags' = db.tags
    /\ ingrediants' = db.ingrediants
    /\ recipe_tags' = db.recipe_tags
    /\ recipe_ingrediants' = db.recipe_ingrediants
    /\ last_id' = db.last_id

\* the primary keys stay within the bounds of the model
Fits(db) ==
    /\ db.last_id.user <= MaxUsers
    /\ db.last_id.recipe <= MaxRecipes
    /\ db.last_id.tag <= MaxTags
    /\ db.last_id.ingrediant <= MaxIngrediants

\* the address user u registered with
EmailOf(u) == [k \in 1..u |-> "a"] \o <<"@", "a">>

\* the store after the users of Users registered (POST create/), before
\* any recipe request
Init ==
    /\ users = [u \in Users |->
                  [UserDefaults EXCEPT !.email = EmailOf(u), !.name = "n",
                                       !.password = make_password(<<"12345">>)]]
    /\ recipes = <<>>
    /\ tags = <<>>
    /\ ingrediants = <<>>
    /\ recipe_tags = {}
    /\ recipe_ingrediants = {}
    /\ last_id = [user |-> MaxUsers, recipe |-> 0, tag |-> 0, ingrediant |-> 0]
    /\ workers = [p \in Procs |-> Idle]

\* the handler runs once; its database is committed
Handle(response) ==
    /\ \E db \in {response.db} : Fits(db) /\ Commit(db)
    /\ UNCHANGED workers

RecipeList(token, params) ==
    Handle(RecipeViewSet_as_view(token, DB,
              RecipeViewSet_list(token, params, DB)))

RecipeRetrieve(token, pk) ==
    Handle(RecipeViewSet_as_view(token, DB,
              RecipeViewSet_retrieve(token, pk, DB)))

RecipeCreate(token, data) ==
    Handle(RecipeViewSet_as_view(token, DB,
              RecipeViewSet_create(token, data, DB)))

RecipeUpdate(token, pk, data, partial) ==
    Handle(RecipeViewSet_as_view(token, DB,
              RecipeViewSet_update(token, pk, data, partial, DB)))

RecipeDestroy(token, pk) ==
    Handle(RecipeViewSet_as_view(token, DB,
              RecipeViewSet_destroy(token, pk, DB)))

RecipeUploadImage(token, pk, data) ==
    Handle(RecipeViewSet_as_view(token, DB,
              RecipeViewSet_upload_image(token, pk, data, DB)))

TagList(token, params) ==
    Handle(TagViewSet_as_view(token, DB, TagViewSet_list(token, params, DB)))

TagUpdate(token, pk, data, partial) ==
    Handle(TagViewSet_as_view(token, DB,
              TagViewSet_update(token, pk, data, partial, DB)))

TagDestroy(token, pk) ==
    Handle(TagViewSet_as_view(token, DB, TagViewSet_destroy(token, pk, DB)))

IngrediantList(token, params) ==
    Handle(IngrediantsViewSet_as_view(token, DB,
              IngrediantsViewSet_list(token, params, DB)))

IngrediantUpdate(token, pk, data, partial) ==
    Handle(IngrediantsViewSet_as_view(token, DB,
              IngrediantsViewSet_update(token, pk, data, partial, DB)))

IngrediantDestroy(token, pk) ==
    Handle(IngrediantsViewSet_as_view(token, DB,
              IngrediantsViewSet_destroy(token, pk, DB)))

\* a request without a token is refused before its body or its query
\* string is read: the empty one stands for all of them
Sent(token, inputs) == IF token = NoToken THEN {EmptyDict} ELSE inputs

Next ==
    \/ \E token \in Tokens : \E params \in Sent(token, RecipeQueryParams) :
          RecipeList(token, params)
    \/ \E token \in Tokens, pk \in RecipeIds : RecipeRetrieve(token, pk)
    \/ \E token \in Tokens : \E data \in Sent(token, RecipePayloads) :
          RecipeCreate(token, data)
    \/ \E token \in Tokens, pk \in RecipeIds, partial \in BOOLEAN :
          \E data \in Sent(token, UpdatePayloads(partial)) :
             RecipeUpdate(token, pk, data, partial)
    \/ \E token \in Tokens, pk \in RecipeIds : RecipeDestroy(token, pk)
    \/ \E token \in Tokens : \E params \in Sent(token, AttrQueryParams) :
          TagList(token, params)
    \/ \E token \in Tokens, pk \in TagIds, partial \in BOOLEAN :
          \E data \in Sent(token, AttrUpdatePayloads) :
             TagUpdate(token, pk, data, partial)
    \/ \E token \in Tokens, pk \in TagIds : TagDestroy(token, pk)
    \/ \E token \in Tokens : \E params \in Sent(token, AttrQueryParams) :
          IngrediantList(token, params)
    \/ \E token \in Tokens, pk \in IngrediantIds, partial \in BOOLEAN :
          \E data \in Sent(token, AttrUpdatePayloads) :
             IngrediantUpdate(token, pk, data, partial)
    \/ \E token \in Tokens, pk \in IngrediantIds : IngrediantDestroy(token, pk)

Spec == Init /\ [][Next]_vars

(***************************************************************************)
(* upload_image writes Recipe.image, a field no other handler reads or     *)
(* writes; the specification with it multiplies every state by the images  *)
(* of its recipes.                                                         *)
(***************************************************************************)
NextUpload ==
    \/ Next
    \/ \E token \in Tokens, pk \in RecipeIds :
          \E data \in Sent(token, ImagePayloads) :
             RecipeUploadImage(token, pk, data)

SpecUpload == Init /\ [][NextUpload]_vars

(***************************************************************************)
(* The user endpoints, from the empty database: the superuser is made by   *)
(* the createsuperuser command, the others register; every user may create *)
(* a recipe, so that a deleted user leaves rows to cascade to.             *)
(***************************************************************************)
InitUser ==
    /\ users = <<>>
    /\ recipes = <<>>
    /\ tags = <<>>
    /\ ingrediants = <<>>
    /\ recipe_tags = {}
    /\ recipe_ingrediants = {}
    /\ last_id = [user |-> 0, recipe |-> 0, tag |-> 0, ingrediant |-> 0]
    /\ workers = [p \in Procs |-> Idle]

ManagerCreateUser(email, password) ==
    Handle(create_user(email, password, EmptyDict, DB))

ManagerCreateSuperuser(email, password) ==
    Handle(create_superuser(email, password, DB))

Register(data) == Handle(CreateUserView_create(data, DB))

ObtainToken(data) == Handle(CreateAuthTokenView_post(data, DB))

MeRetrieve(token) ==
    Handle(ManageUserView_as_view(token, DB, ManageUserView_retrieve(token, DB)))

MeUpdate(token, data, partial) ==
    Handle(ManageUserView_as_view(token, DB,
              ManageUserView_update(token, data, partial, DB)))

AdminList(token, page) ==
    Handle(AdminUserView_as_view(token, DB, AdminUserView_list(page, DB)))

AdminRetrieve(token, pk) ==
    Handle(AdminUserView_as_view(token, DB, AdminUserView_retrieve(pk, DB)))

AdminCreate(token, data) ==
    Handle(AdminUserView_as_view(token, DB, AdminUserView_create(data, DB)))

AdminUpdate(token, pk, data, partial) ==
    Handle(AdminUserView_as_view(token, DB,
              AdminUserView_update(pk, data, partial, DB)))

AdminDestroy(token, pk) ==
    Handle(AdminUserView_as_view(token, DB, AdminUserView_destroy(pk, DB)))

ResetPass(data) == Handle(send_email(data, DB))

NextUser ==
    \/ \E email \in Emails, password \in Passwords :
          ManagerCreateSuperuser(email, password)
    \/ \E data \in UserPayloads : Register(data)
    \/ \E data \in TokenPayloads : ObtainToken(data)
    \/ \E token \in Tokens : MeRetrieve(token)
    \/ \E token \in Tokens, partial \in BOOLEAN :
          \E data \in Sent(token, UserUpdatePayloads(partial)) :
             MeUpdate(token, data, partial)
    \/ \E token \in Tokens, page \in Pages : AdminList(token, page)
    \/ \E token \in Tokens, pk \in UserIds : AdminRetrieve(token, pk)
    \/ \E token \in Tokens : \E data \in Sent(token, UserPayloads) :
          AdminCreate(token, data)
    \/ \E token \in Tokens, pk \in UserIds, partial \in BOOLEAN :
          \E data \in Sent(token, UserUpdatePayloads(partial)) :
             AdminUpdate(token, pk, data, partial)
    \/ \E token \in Tokens, pk \in UserIds : AdminDestroy(token, pk)
    \/ \E data \in ResetPayloads : ResetPass(data)
    \/ \E token \in Tokens : \E data \in Sent(token, OwnRecipePayloads) :
          RecipeCreate(token, data)

SpecUser == InitUser /\ [][NextUser]_vars

(***************************************************************************)
(* The user manager alone: create_user and create_superuser called with    *)
(* every string of EmailStrings, with and without a password.              *)
(***************************************************************************)
NextManager ==
    \/ \E email \in EmailStrings : ManagerCreateUser(email, <<"12345">>)
    \/ \E email \in Emails : ManagerCreateUser(email, None)
    \/ \E email \in Emails : ManagerCreateSuperuser(email, "12345")

SpecManager == InitUser /\ [][NextManager]_vars

(***************************************************************************)
(* Requests handled at the same time.  A worker runs                       *)
(* RecipeSerializer.create or update one database statement at a time;     *)
(* the statements of the two workers interleave.  Under ATOMIC_REQUESTS    *)
(* the writes of a request are held in its transaction (log), which the    *)
(* request itself reads through and the others do not see, and reach the   *)
(* store when the request commits; primary keys come from sequences, which *)
(* are outside the transactions.                                           *)
(***************************************************************************)
\* a write of a transaction
Op(op, table, recipe, id, row) ==
    [op |-> op, table |-> table, recipe |-> recipe, id |-> id, row |-> row]

\* the database after the write
Apply(db, w) ==
    CASE w.op = "clear" /\ w.table = "tags" ->
            [db EXCEPT !.recipe_tags = Clear(@, w.recipe)]
      [] w.op = "clear" /\ w.table = "ingrediants" ->
            [db EXCEPT !.recipe_ingrediants = Clear(@, w.recipe)]
      [] w.op = "create" /\ w.table = "tags" ->
            [db EXCEPT !.tags = @ @@ (w.id :> w.row)]
      [] w.op = "create" /\ w.table = "ingrediants" ->
            [db EXCEPT !.ingrediants = @ @@ (w.id :> w.row)]
      [] w.op = "create" /\ w.table = "recipes" ->
            [db EXCEPT !.recipes = @ @@ (w.id :> w.row)]
      [] w.op = "add" /\ w.table = "tags" ->
            [db EXCEPT !.recipe_tags = @ \cup {<<w.recipe, w.id>>}]
      [] w.op = "add" /\ w.table = "ingrediants" ->
            [db EXCEPT !.recipe_ingrediants = @ \cup {<<w.recipe, w.id>>}]
      [] w.op = "save" ->
            [db EXCEPT !.recipes[w.recipe] = SetAttrs(@, w.row)]

RECURSIVE ApplyAll(_, _)
ApplyAll(db, log) ==
    IF log = <<>> THEN db ELSE ApplyAll(Apply(db, Head(log)), Tail(log))

\* what the statements of a worker read: the store and its own writes
View(w) == ApplyAll(DB, w.log)

\* the request writes: into its transaction, or into the store at once
\* when requests are not atomic
Write(w, op) ==
    IF ATOMIC_REQUESTS
    THEN [w |-> [w EXCEPT !.log = Append(@, op)], db |-> DB]
    ELSE [w |-> w, db |-> Apply(DB, op)]

Rows(db, table) == IF table = "tags" THEN db.tags ELSE db.ingrediants

Sequence(table) ==
    CASE table = "tags" -> "tag"
      [] table = "ingrediants" -> "ingrediant"
      [] table = "recipes" -> "recipe"

MaxOf(table) ==
    CASE table = "tags" -> MaxTags
      [] table = "ingrediants" -> MaxIngrediants
      [] table = "recipes" -> MaxRecipes

\* the step of worker p
Step(p, w, db) ==
    /\ workers' = [workers EXCEPT ![p] = w]
    /\ Commit(db)

\* the worker is through with the list of a table: on to the ingrediants
\* after the tags, to the save after the ingrediants (update) or to the
\* end of the request (create)
Through(w) ==
    IF w.table = "tags"
    THEN IF w.ingrediants = None
         THEN [w EXCEPT !.pc = IF w.clears THEN "save" ELSE "commit"]
         ELSE [w EXCEPT !.table = "ingrediants", !.rest = w.ingrediants[1],
                        !.pc = IF w.clears THEN "clear"
                               ELSE IF w.ingrediants[1] = <<>> THEN "commit"
                               ELSE "get"]
    ELSE [w EXCEPT !.pc = IF w.clears THEN "save" ELSE "commit"]

\* the worker enters the loop over the list, or is through with it
Loop(w) == IF w.rest = <<>> THEN Through(w) ELSE [w EXCEPT !.pc = "get"]

\* the worker starts on the tags: if tags is not None: clear (update)
Start(w) ==
    IF w.tags = None
    THEN Through([w EXCEPT !.table = "tags"])
    ELSE IF w.clears
    THEN [w EXCEPT !.table = "tags", !.rest = w.tags[1], !.pc = "clear"]
    ELSE Loop([w EXCEPT !.table = "tags", !.rest = w.tags[1]])

\* PATCH /recipes/{pk}: get_object() and RecipeSerializer.update up to the
\* two pops
BeginUpdate(p, u, pk, data) ==
    LET qs == RecipeViewSet_get_queryset(u, EmptyDict, DB)
        validated_data == Without(data, RecipeReadOnlyFields)
    IN  /\ workers[p].pc = "idle"
        /\ pk \in Range(qs.rows)
        /\ Step(p, Start([Idle EXCEPT
                            !.user = u, !.recipe = pk, !.clears = TRUE,
                            !.tags = Pop(validated_data, "tags"),
                            !.ingrediants = Pop(validated_data, "ingrediants"),
                            !.fields = Without(validated_data,
                                               {"tags", "ingrediants"})]),
                DB)

\* POST /recipes: perform_create and RecipeSerializer.create up to
\* Recipe.objects.create
BeginCreate(p, u, data) ==
    LET validated_data == Merge("user" :> u, Without(data, RecipeReadOnlyFields))
        pk == last_id.recipe + 1
        row == Merge(Without(validated_data, {"tags", "ingrediants"}),
                     [image |-> NoImage])
        w == [Idle EXCEPT
                !.user = u, !.recipe = pk,
                !.tags = <<PopOr(validated_data, "tags", <<>>)>>,
                !.ingrediants = <<PopOr(validated_data, "ingrediants", <<>>)>>]
        wr == Write(w, Op("create", "recipes", pk, pk, row))
    IN  /\ workers[p].pc = "idle"
        /\ Has(data, "title")
        /\ pk <= MaxRecipes
        /\ Step(p, Start(wr.w), [wr.db EXCEPT !.last_id.recipe = pk])

\* instance.tags.clear() / instance.ingrediants.clear()
ClearLinks(p) ==
    LET w == workers[p]
        wr == Write(w, Op("clear", w.table, w.recipe, 0, <<>>))
    IN  /\ w.pc = "clear"
        /\ Step(p, Loop(wr.w), wr.db)

\* the get() of get_or_create: the row of (user, name), none, or several
QuerySet_get(rows, user, name) ==
    {id \in DOMAIN rows : rows[id].user = user /\ rows[id].name = name}

\* the request ends in an exception: its transaction is rolled back
Raise(w) == [Idle EXCEPT !.pc = "done", !.status = 500, !.made = w.made]

Lookup(p) ==
    LET w == workers[p]
        found == QuerySet_get(Rows(View(w), w.table), w.user, Head(w.rest).name)
    IN  /\ w.pc = "get"
        /\ Step(p, IF Cardinality(found) > 1 THEN Raise(w)
                   ELSE IF found = {} THEN [w EXCEPT !.pc = "create"]
                   ELSE [w EXCEPT !.pc = "add",
                                  !.obj = CHOOSE id \in found : TRUE],
                DB)

\* (mutation) the store has a unique constraint on (user, name): the
\* insert of a second row is refused
Insert_unique(w, db) ==
    IF QuerySet_get(Rows(db, w.table), w.user, Head(w.rest).name) # {}
    THEN [w |-> Raise(w), db |-> db]
    ELSE LET id == db.last_id[Sequence(w.table)] + 1
             wr == Write(w, Op("create", w.table, w.recipe, id,
                               [user |-> w.user, name |-> Head(w.rest).name]))
         IN  [w |-> [wr.w EXCEPT !.pc = "add", !.obj = id,
                                 !.made = @ \cup {<<w.table, id>>}],
              db |-> [wr.db EXCEPT !.last_id[Sequence(w.table)] = id]]

\* the create() of get_or_create after the get() found nothing: Tag and
\* Ingrediant have no constraint on (user, name), the row is inserted
Insert(w, db) ==
    LET id == db.last_id[Sequence(w.table)] + 1
        wr == Write(w, Op("create", w.table, w.recipe, id,
                          [user |-> w.user, name |-> Head(w.rest).name]))
    IN  [w |-> [wr.w EXCEPT !.pc = "add", !.obj = id,
                            !.made = @ \cup {<<w.table, id>>}],
         db |-> [wr.db EXCEPT !.last_id[Sequence(w.table)] = id]]

Create(p) ==
    LET w == workers[p]
        res == Insert(w, DB)
    IN  /\ w.pc = "create"
        /\ last_id[Sequence(w.table)] < MaxOf(w.table)
        /\ Step(p, res.w, res.db)

\* recipe.tags.add(tag_obj) / recipe.ingrediants.add(ing_obj)
AddLink(p) ==
    LET w == workers[p]
        wr == Write(w, Op("add", w.table, w.recipe, w.obj, <<>>))
    IN  /\ w.pc = "add"
        /\ Step(p, Loop([wr.w EXCEPT !.rest = Tail(@)]), wr.db)

\* the setattr loop and instance.save()
SaveInstance(p) ==
    LET w == workers[p]
        wr == Write(w, Op("save", "recipes", w.recipe, w.recipe, w.fields))
    IN  /\ w.pc = "save"
        /\ Step(p, [wr.w EXCEPT !.pc = "commit"], wr.db)

\* the request is through: its transaction commits
TransactionCommit(p) ==
    LET w == workers[p]
    IN  /\ w.pc = "commit"
        /\ Step(p, [Idle EXCEPT !.pc = "done", !.made = w.made,
                                !.status = IF w.clears THEN 200 ELSE 201],
                View(w))

\* the response is sent, the worker takes the next request
Respond(p) ==
    /\ workers[p].pc = "done"
    /\ Step(p, Idle, DB)

\* the user whose requests are handled at the same time
RacingUsers == {1}

\* the payloads of these requests: a tag list of no, one or two names,
\* or an ingrediant list
RacingPayloads ==
    {Merge("title" :> t, x) :
        t \in Titles,
        x \in {[tags |-> d] :
                  d \in {e \in TagData :
                            \A k \in DOMAIN e :
                               e[k].name = IF k = 1 THEN "a" ELSE "b"}}
              \cup {[ingrediants |-> <<[name |-> "a"]>>]}}

NextConcurrent ==
    \/ \E p \in Procs, u \in RacingUsers, pk \in RecipeIds :
          \E data \in RacingPayloads : BeginUpdate(p, u, pk, data)
    \/ \E p \in Procs, u \in RacingUsers :
          \E data \in RacingPayloads : BeginCreate(p, u, data)
    \/ \E p \in Procs : ClearLinks(p)
    \/ \E p \in Procs : Lookup(p)
    \/ \E p \in Procs : Create(p)
    \/ \E p \in Procs : AddLink(p)
    \/ \E p \in Procs : SaveInstance(p)
    \/ \E p \in Procs : TransactionCommit(p)
    \/ \E p \in Procs : Respond(p)
    \/ \E u \in RacingUsers, pk \in RecipeIds : RecipeRetrieve(u, pk)
    \/ \E u \in RacingUsers : RecipeList(u, EmptyDict)

SpecConcurrent == Init /\ [][NextConcurrent]_vars


(***************************************************************************)
(* Properties.  A property of a request is stated of the handler applied   *)
(* to the request in every reachable state: every step of the state        *)
(* machine is such an application.                                         *)
(***************************************************************************)
Seen(response) == [status |-> response.status, body |-> response.body]

\* the rows of user u and the links among them
Owned(db, u) ==
    LET own(rows) == {id \in DOMAIN rows : rows[id].user = u}
    IN  [db EXCEPT
           !.recipes = [id \in own(db.recipes) |-> db.recipes[id]],
           !.tags = [id \in own(db.tags) |-> db.tags[id]],
           !.ingrediants = [id \in own(db.ingrediants) |-> db.ingrediants[id]],
           !.recipe_tags = {l \in @ : l[1] \in own(db.recipes)
                                      /\ l[2] \in own(db.tags)},
           !.recipe_ingrediants = {l \in @ : l[1] \in own(db.recipes)
                                      /\ l[2] \in own(db.ingrediants)}]

\* everything user u can read: the response to every read request
Reads(u, db) ==
    [recipe_list     |-> [p \in RecipeQueryParams |->
                             Seen(RecipeViewSet_list(u, p, db))],
     recipe_detail   |-> [pk \in RecipeIds |->
                             Seen(RecipeViewSet_retrieve(u, pk, db))],
     tag_list        |-> [p \in AttrQueryParams |->
                             Seen(TagViewSet_list(u, p, db))],
     ingrediant_list |-> [p \in AttrQueryParams |->
                             Seen(IngrediantsViewSet_list(u, p, db))]]

\* the recipes a response shows are u's, and so are their tags and ingrediants
RecipeBodyOwnedBy(body, u) ==
    \A k \in DOMAIN body :
        /\ recipes[body[k].id].user = u
        /\ \A t \in body[k].tags : tags[t.id].user = u
        /\ \A i \in body[k].ingrediants : ingrediants[i.id].user = u

(***************************************************************************)
(* C1: whatever a user reads (recipe list with or without filters, recipe  *)
(* detail, tag list and ingrediant list with or without assigned_only)     *)
(* shows only rows the user owns, and is what the user would read if the   *)
(* rows of the other users did not exist.                                  *)
(***************************************************************************)
C1_ReadsIsolated ==
    \A u \in Users :
        /\ Reads(u, DB) = Reads(u, Owned(DB, u))
        /\ \A p \in RecipeQueryParams :
              RecipeBodyOwnedBy(RecipeViewSet_list(u, p, DB).body, u)
        /\ \A pk \in RecipeIds :
              RecipeBodyOwnedBy(RecipeViewSet_retrieve(u, pk, DB).body, u)
        /\ \A p \in AttrQueryParams :
              /\ \A t \in Range(TagViewSet_list(u, p, DB).body) :
                    tags[t.id].user = u
              /\ \A i \in Range(IngrediantsViewSet_list(u, p, DB).body) :
                    ingrediants[i.id].user = u

\* both users own a recipe with a tag, one of them also an ingrediant, and
\* user 2 is shown one recipe and one tag
C1_Witness ==
    \E r1, r2 \in DOMAIN recipes :
        /\ recipes[r1].user = 1 /\ recipes[r2].user = 2
        /\ \E l \in recipe_tags : l[1] = r1
        /\ \E l \in recipe_tags : l[1] = r2
        /\ \E l \in recipe_ingrediants : l[1] = r1
        /\ Len(RecipeViewSet_list(2, EmptyDict, DB).body) = 1
        /\ RecipeViewSet_retrieve(2, r1, DB).status = 404
        /\ Len(TagViewSet_list(2, EmptyDict, DB).body) = 1
        /\ Len(IngrediantsViewSet_list(2, EmptyDict, DB).body) = 0

\* the request is answered not-found and the store is as it was
Refused(response) == response.status = 404 /\ response.db = DB

(***************************************************************************)
(* C2: a PATCH, PUT, DELETE or upload-image request against a recipe, tag  *)
(* or ingrediant that another user owns is answered 404 and leaves the     *)
(* whole store unchanged.                                                  *)
(***************************************************************************)
C2_ForeignWriteRefused ==
    \A u \in Users :
        /\ \A pk \in DOMAIN recipes :
              recipes[pk].user # u =>
                /\ \A partial \in BOOLEAN :
                      \A data \in UpdatePayloads(partial) :
                         Refused(RecipeViewSet_update(u, pk, data, partial, DB))
                /\ Refused(RecipeViewSet_destroy(u, pk, DB))
                /\ \A data \in ImagePayloads :
                      Refused(RecipeViewSet_upload_image(u, pk, data, DB))
        /\ \A pk \in DOMAIN tags :
              tags[pk].user # u =>
                /\ \A partial \in BOOLEAN, data \in AttrPayloads :
                      Refused(TagViewSet_update(u, pk, data, partial, DB))
                /\ Refused(TagViewSet_destroy(u, pk, DB))
        /\ \A pk \in DOMAIN ingrediants :
              ingrediants[pk].user # u =>
                /\ \A partial \in BOOLEAN, data \in AttrPayloads :
                      Refused(IngrediantsViewSet_update(u, pk, data, partial, DB))
                /\ Refused(IngrediantsViewSet_destroy(u, pk, DB))

\* user 1 owns a recipe linked to a tag and an ingrediant, and user 2's
\* requests against the three rows are refused
C2_Witness ==
    \E pk \in DOMAIN recipes, t \in DOMAIN tags, i \in DOMAIN ingrediants :
        /\ recipes[pk].user = 1 /\ tags[t].user = 1 /\ ingrediants[i].user = 1
        /\ <<pk, t>> \in recipe_tags /\ <<pk, i>> \in recipe_ingrediants
        /\ Refused(RecipeViewSet_update(2, pk, "tags" :> <<>>, TRUE, DB))
        /\ Refused(RecipeViewSet_destroy(2, pk, DB))
        /\ Refused(RecipeViewSet_upload_image(2, pk, "image" :> "img", DB))
        /\ Refused(TagViewSet_update(2, t, "name" :> "b", TRUE, DB))
        /\ Refused(IngrediantsViewSet_destroy(2, i, DB))

(***************************************************************************)
(* C3: every tag and every ingrediant linked to a recipe is a row owned by *)
(* the owner of the recipe.                                                *)
(***************************************************************************)
C3_LinksWithinOwner ==
    /\ \A l \in recipe_tags :
          /\ l[1] \in DOMAIN recipes /\ l[2] \in DOMAIN tags
          /\ tags[l[2]].user = recipes[l[1]].user
    /\ \A l \in recipe_ingrediants :
          /\ l[1] \in DOMAIN recipes /\ l[2] \in DOMAIN ingrediants
          /\ ingrediants[l[2]].user = recipes[l[1]].user

\* the two users each own a tag of the same name, each linked to a recipe,
\* and an ingrediant is linked too
C3_Witness ==
    /\ \E l, m \in recipe_tags :
          /\ tags[l[2]].user = 1 /\ tags[m[2]].user = 2
          /\ tags[l[2]].name = tags[m[2]].name
    /\ recipe_ingrediants # {}

NamesOf(list) == {list[k].name : k \in DOMAIN list}

RowsNamed(rows, u, n) ==
    {id \in DOMAIN rows : rows[id].user = u /\ rows[id].name = n}

LinkedTo(links, pk) == {l[2] : l \in {m \in links : m[1] = pk}}

\* reconciling list for user u reuses the row of every name that had exactly
\* one: no row of that name is added, and on success the recipe is linked
\* to it; a list of such names only leaves the table as it was
Reused(u, list, rowsBefore, rowsAfter, linksAfter, pk, success) ==
    /\ \A n \in NamesOf(list) :
          \A t \in RowsNamed(rowsBefore, u, n) :
             RowsNamed(rowsBefore, u, n) = {t} =>
                /\ RowsNamed(rowsAfter, u, n) = {t}
                /\ success => t \in LinkedTo(linksAfter, pk)
    /\ (\A n \in NamesOf(list) :
            Cardinality(RowsNamed(rowsBefore, u, n)) = 1)
          => /\ rowsAfter = rowsBefore
             /\ success => Cardinality(LinkedTo(linksAfter, pk))
                               = Cardinality(NamesOf(list))

ReusedBy(u, data, pk, response, success) ==
    /\ Has(data, "tags") =>
          Reused(u, data.tags, tags, response.db.tags,
                 response.db.recipe_tags, pk, success)
    /\ Has(data, "ingrediants") =>
          Reused(u, data.ingrediants, ingrediants, response.db.ingrediants,
                 response.db.recipe_ingrediants, pk, success)

(***************************************************************************)
(* C4: when a recipe create or update payload names a tag (ingrediant) of  *)
(* which the requesting user owns exactly one row, no row of that name is  *)
(* added and the recipe of a request that succeeds is linked to that row.  *)
(***************************************************************************)
C4_ExistingRowReused ==
    \A u \in Users :
        /\ \A data \in RecipePayloads :
              LET response == RecipeViewSet_create(u, data, DB)
              IN  ReusedBy(u, data, last_id.recipe + 1, response,
                           response.status = 201)
        /\ \A pk \in RecipeIds, partial \in BOOLEAN :
              \A data \in UpdatePayloads(partial) :
                 LET response == RecipeViewSet_update(u, pk, data, partial, DB)
                 IN  ReusedBy(u, data, pk, response, response.status = 200)

\* a tag and an ingrediant are each linked to two recipes, and a further
\* update naming the tag is answered 200
C4_Witness ==
    \E t \in DOMAIN tags, i \in DOMAIN ingrediants, pk \in DOMAIN recipes :
        /\ Cardinality({l \in recipe_tags : l[2] = t}) = 2
        /\ Cardinality({l \in recipe_ingrediants : l[2] = i}) = 2
        /\ RowsNamed(tags, tags[t].user, tags[t].name) = {t}
        /\ RecipeViewSet_update(tags[t].user, pk,
                 "tags" :> <<[name |-> tags[t].name]>>, TRUE, DB).status = 200

(***************************************************************************)
(* C5: after a successful recipe update (PATCH or PUT) whose payload has   *)
(* the tags field, the tags of the recipe are exactly the requesting       *)
(* user's tags whose names are in the list (none for the empty list); the  *)
(* same for the ingrediants field.                                         *)
(***************************************************************************)
C5_UpdateReplacesLinks ==
    \A u \in Users, pk \in RecipeIds, partial \in BOOLEAN :
        \A data \in UpdatePayloads(partial) :
           LET response == RecipeViewSet_update(u, pk, data, partial, DB)
           IN  response.status = 200 =>
                 /\ Has(data, "tags") =>
                       LinkedTo(response.db.recipe_tags, pk)
                         = UNION {RowsNamed(response.db.tags, u, n) :
                                     n \in NamesOf(data.tags)}
                 /\ Has(data, "ingrediants") =>
                       LinkedTo(response.db.recipe_ingrediants, pk)
                         = UNION {RowsNamed(response.db.ingrediants, u, n) :
                                     n \in NamesOf(data.ingrediants)}

\* a recipe linked to tag a and to an ingrediant: the PATCH of tags to [b]
\* leaves it linked to b alone, the PATCH of ingrediants to [] to none
C5_Witness ==
    \E pk \in DOMAIN recipes, t \in DOMAIN tags :
        LET u == recipes[pk].user
            r1 == RecipeViewSet_update(u, pk, "tags" :> <<[name |-> "b"]>>,
                                       TRUE, DB)
            r2 == RecipeViewSet_update(u, pk, "ingrediants" :> <<>>, TRUE, DB)
        IN  /\ tags[t].name = "a" /\ LinkedTo(recipe_tags, pk) = {t}
            /\ LinkedTo(recipe_ingrediants, pk) # {}
            /\ r1.status = 200 /\ Fits(r1.db)
            /\ t \notin LinkedTo(r1.db.recipe_tags, pk)
            /\ Cardinality(LinkedTo(r1.db.recipe_tags, pk)) = 1
            /\ r2.status = 200
            /\ LinkedTo(r2.db.recipe_ingrediants, pk) = {}

(***************************************************************************)
(* C6: a recipe update whose payload has no tags field leaves the tag      *)
(* links (and rows) as they were, and one with no ingrediants field the    *)
(* ingrediant links; supplying one of the two never changes the other.     *)
(***************************************************************************)
C6_AbsentListUntouched ==
    \A u \in Users, pk \in RecipeIds, partial \in BOOLEAN :
        \A data \in UpdatePayloads(partial) :
           LET response == RecipeViewSet_update(u, pk, data, partial, DB)
           IN  /\ ~Has(data, "tags") =>
                     /\ response.db.recipe_tags = recipe_tags
                     /\ response.db.tags = tags
               /\ ~Has(data, "ingrediants") =>
                     /\ response.db.recipe_ingrediants = recipe_ingrediants
                     /\ response.db.ingrediants = ingrediants

\* a recipe with a tag and an ingrediant: a PATCH of the tags alone changes
\* the tag links and is answered 200, a PATCH of the ingrediants alone
\* changes the ingrediant links
C6_Witness ==
    \E pk \in DOMAIN recipes :
        LET u == recipes[pk].user
            r1 == RecipeViewSet_update(u, pk, "tags" :> <<>>, TRUE, DB)
            r2 == RecipeViewSet_update(u, pk, "ingrediants" :> <<>>, TRUE, DB)
        IN  /\ LinkedTo(recipe_tags, pk) # {}
            /\ LinkedTo(recipe_ingrediants, pk) # {}
            /\ r1.status = 200 /\ r1.db.recipe_tags # recipe_tags
            /\ r1.db.recipe_ingrediants = recipe_ingrediants
            /\ r2.status = 200 /\ r2.db.recipe_ingrediants # recipe_ingrediants
            /\ r2.db.recipe_tags = recipe_tags

\* the list a payload gives under key, the empty one when it gives none
Named(data, key) == IF key \in DOMAIN data THEN data[key] ELSE <<>>

\* the recipe is linked to one row of user u per name of the list, and to
\* nothing else
LinkedOnePerName(u, list, rows, links, pk) ==
    LET linked == LinkedTo(links, pk)
    IN  /\ Cardinality(linked) = Cardinality(NamesOf(list))
        /\ \A t \in linked :
              /\ t \in DOMAIN rows
              /\ rows[t].user = u
              /\ rows[t].name \in NamesOf(list)
        /\ \A n \in NamesOf(list) : \E t \in linked : rows[t].name = n

(***************************************************************************)
(* C7: a recipe creation that succeeds adds one recipe, owned by the       *)
(* requester, linked to exactly one tag (ingrediant) row of the requester  *)
(* per distinct name of the list, and to none when the field is absent;    *)
(* the other recipes are as they were.                                     *)
(***************************************************************************)
C7_CreateLinksEachName ==
    \A u \in Users, data \in RecipePayloads :
        LET response == RecipeViewSet_create(u, data, DB)
            pk == last_id.recipe + 1
        IN  response.status = 201 =>
              /\ pk \notin DOMAIN recipes
              /\ DOMAIN response.db.recipes = DOMAIN recipes \cup {pk}
              /\ \A r \in DOMAIN recipes : response.db.recipes[r] = recipes[r]
              /\ response.db.recipes[pk].user = u
              /\ LinkedOnePerName(u, Named(data, "tags"),
                                  response.db.tags,
                                  response.db.recipe_tags, pk)
              /\ LinkedOnePerName(u, Named(data, "ingrediants"),
                                  response.db.ingrediants,
                                  response.db.recipe_ingrediants, pk)

\* a recipe linked to two tags of different names, one linked to an
\* ingrediant, and a creation without the lists that is answered 201
C7_Witness ==
    /\ \E pk \in DOMAIN recipes :
          \E t1, t2 \in LinkedTo(recipe_tags, pk) :
             tags[t1].name # tags[t2].name
    /\ \E pk \in DOMAIN recipes : LinkedTo(recipe_ingrediants, pk) # {}
    /\ \E u \in Users :
          LET response == RecipeViewSet_create(u, "title" :> "t1", DB)
          IN  /\ response.status = 201
              /\ LinkedTo(response.db.recipe_tags, last_id.recipe + 1) = {}

(***************************************************************************)
(* C8: no step changes the owner of a recipe, whatever the payload of an   *)
(* update carries in its user field.                                       *)
(***************************************************************************)
C8_OwnerNeverChanges ==
    [][\A pk \in DOMAIN recipes \cap DOMAIN recipes' :
          recipes'[pk].user = recipes[pk].user]_vars

\* an update naming another user in its user field is answered 200 and the
\* recipe is still the requester's
C8_Witness ==
    \E pk \in DOMAIN recipes, other \in Users :
        LET u == recipes[pk].user
            response == RecipeViewSet_update(u, pk, "user" :> other, TRUE, DB)
        IN  /\ other # u
            /\ response.status = 200
            /\ response.db.recipes[pk].user = u

\* the ids a well-formed filter string lists
IdsListed(param) ==
    CASE param = <<"1">> -> {1}
      [] param = <<" ", "2">> -> {2}
      [] param = <<"1", ",", "2">> -> {1, 2}

WellFormed(params) ==
    \A k \in DOMAIN params : params[k] # <<"x">>

\* recipe r passes the filters of params
Matches(r, params) ==
    /\ Has(params, "tags") =>
          LinkedTo(recipe_tags, r) \cap IdsListed(params.tags) # {}
    /\ Has(params, "ingrediants") =>
          LinkedTo(recipe_ingrediants, r)
             \cap IdsListed(params.ingrediants) # {}

Shown(response) == {response.body[k].id : k \in DOMAIN response.body}

(***************************************************************************)
(* C9: the recipe list shows exactly the requester's recipes that have a   *)
(* tag of the tags filter, when given, and an ingrediant of the            *)
(* ingrediants filter, when given: the intersection when both are.         *)
(***************************************************************************)
C9_FilterExact ==
    \A u \in Users, params \in RecipeQueryParams :
        WellFormed(params) =>
           LET response == RecipeViewSet_list(u, params, DB)
           IN  /\ response.status = 200
               /\ Shown(response)
                    = {r \in DOMAIN recipes :
                          recipes[r].user = u /\ Matches(r, params)}

\* one user has a recipe with tag 1 and an ingrediant and another recipe
\* with tag 1 alone: the tags filter shows both, both filters the first
C9_Witness ==
    \E u \in Users, r1, r2 \in DOMAIN recipes :
        /\ recipes[r1].user = u /\ recipes[r2].user = u
        /\ <<r1, 1>> \in recipe_tags /\ <<r2, 1>> \in recipe_tags
        /\ <<r1, 1>> \in recipe_ingrediants
        /\ LinkedTo(recipe_ingrediants, r2) = {}
        /\ Shown(RecipeViewSet_list(u, "tags" :> <<"1">>, DB)) = {r1, r2}
        /\ Shown(RecipeViewSet_list(u, "ingrediants" :> <<"1">>, DB)) = {r1}
        /\ Shown(RecipeViewSet_list(u,
                    Merge("tags" :> <<"1", ",", "2">>,
                          "ingrediants" :> <<"1">>), DB)) = {r1}
        /\ Shown(RecipeViewSet_list(u, "tags" :> <<" ", "2">>, DB)) = {}

(***************************************************************************)
(* C10: the recipe list is in strictly descending order of id, so that no  *)
(* recipe is shown twice, whichever filters are given.                     *)
(***************************************************************************)
C10_DescendingOnce ==
    \A u \in Users, params \in RecipeQueryParams :
        LET body == RecipeViewSet_list(u, params, DB).body
        IN  \A j, k \in DOMAIN body : j < k => body[j].id > body[k].id

\* a recipe with two tags and another recipe of the same user: the filter
\* on both tags shows the two recipes, the later one first
C10_Witness ==
    \E u \in Users :
        LET body == RecipeViewSet_list(u, "tags" :> <<"1", ",", "2">>, DB).body
        IN  /\ Len(body) = 2
            /\ body[1].id = 2 /\ body[2].id = 1
            /\ \E k \in 1..2 : Cardinality(body[k].tags) = 2

\* the ids of the rows a response shows, in the order shown
ShownIds(response) == [k \in DOMAIN response.body |-> response.body[k].id]

\* name n sorts before name m
SortsBefore(n, m) == n = "a" /\ m = "b"

\* the response lists exactly the rows of expected, each once, no name
\* before a name that sorts after it
ListsByNameDesc(response, expected) ==
    LET ids == ShownIds(response)
    IN  /\ response.status = 200
        /\ Range(ids) = expected
        /\ \A j, k \in DOMAIN ids : j < k =>
              /\ ids[j] # ids[k]
              /\ ~SortsBefore(response.body[j].name, response.body[k].name)

\* "assigned_only" as the request gives it: absent and 0 are off, 1 is on
AssignedOnlyGiven(params) ==
    Has(params, "assigned_only") /\ params.assigned_only = <<"1">>

(***************************************************************************)
(* C11: the tag list and the ingrediant list show, with assigned_only=1,   *)
(* exactly the requester's rows linked to at least one recipe, each once   *)
(* however many recipes it is linked to, and with assigned_only absent or  *)
(* 0 all the requester's rows; in both cases in descending order of name.  *)
(***************************************************************************)
C11_AssignedOnlyOnce ==
    \A u \in Users, params \in AttrQueryParams :
        (Has(params, "assigned_only") => params.assigned_only # <<"x">>) =>
           /\ ListsByNameDesc(TagViewSet_list(u, params, DB),
                 {t \in DOMAIN tags :
                     /\ tags[t].user = u
                     /\ AssignedOnlyGiven(params) =>
                           \E l \in recipe_tags : l[2] = t})
           /\ ListsByNameDesc(IngrediantsViewSet_list(u, params, DB),
                 {i \in DOMAIN ingrediants :
                     /\ ingrediants[i].user = u
                     /\ AssignedOnlyGiven(params) =>
                           \E l \in recipe_ingrediants : l[2] = i})

\* a user has tag a on two recipes and tag b on none, and an ingrediant on
\* two recipes: the full list shows b then a, the assigned list a alone
C11_Witness ==
    \E u \in Users, ta, tb \in DOMAIN tags, i \in DOMAIN ingrediants :
        /\ tags[ta].user = u /\ tags[ta].name = "a"
        /\ tags[tb].user = u /\ tags[tb].name = "b"
        /\ Cardinality({l \in recipe_tags : l[2] = ta}) = 2
        /\ {l \in recipe_tags : l[2] = tb} = {}
        /\ Cardinality({l \in recipe_ingrediants : l[2] = i}) = 2
        /\ ShownIds(TagViewSet_list(u, EmptyDict, DB)) = <<tb, ta>>
        /\ ShownIds(TagViewSet_list(u, "assigned_only" :> <<"1">>, DB))
              = <<ta>>
        /\ ShownIds(IngrediantsViewSet_list(u, "assigned_only" :> <<"1">>, DB))
              = <<i>>

\* a filter string with a token that is no integer
Malformed(params) == ~WellFormed(params)

(***************************************************************************)
(* C12: a recipe list request whose tags or ingrediants filter holds a     *)
(* token that is not an integer is answered with a client error (4xx) and  *)
(* changes nothing in the store.                                           *)
(***************************************************************************)
C12_MalformedFilterClientError ==
    \A u \in Users, params \in RecipeQueryParams :
        Malformed(params) =>
           LET response == RecipeViewSet_list(u, params, DB)
           IN  /\ response.status \in 400..499
               /\ response.db = DB

(***************************************************************************)
(* C19: in every state reached by requests served one after the other,     *)
(* renames through the tag and ingrediant endpoints included, a user has   *)
(* at most one Tag row and at most one Ingrediant row of a name, so the    *)
(* lookup of a reconciliation never matches two rows.                      *)
(***************************************************************************)
C19_LookupUnambiguous ==
    \A u \in Users, n \in Names :
        /\ Cardinality(RowsNamed(tags, u, n)) <= 1
        /\ Cardinality(RowsNamed(ingrediants, u, n)) <= 1

\* the names a list gives more than once
Repeated(list) ==
    {list[j].name : j \in {i \in DOMAIN list :
                              \E k \in DOMAIN list : k # i /\ list[k] = list[i]}}

\* no name of the list is held by two rows of u
Unambiguous(u, list, rows) ==
    \A n \in NamesOf(list) : Cardinality(RowsNamed(rows, u, n)) <= 1

\* a request answered with success leaves one row of u and one link of the
\* recipe for every name its list repeats
RepeatedLinkedOnce(u, list, rowsAfter, linksAfter, pk) ==
    \A n \in Repeated(list) :
        /\ Cardinality(RowsNamed(rowsAfter, u, n)) = 1
        /\ Cardinality(LinkedTo(linksAfter, pk)
                          \cap RowsNamed(rowsAfter, u, n)) = 1
        /\ Cardinality({l \in linksAfter :
                           l[1] = pk /\ l[2] \in RowsNamed(rowsAfter, u, n)}) = 1

RepeatedConverges(u, data, pk, response, success) ==
    (/\ Unambiguous(u, Named(data, "tags"), tags)
     /\ Unambiguous(u, Named(data, "ingrediants"), ingrediants))
    => /\ response.status # 500
       /\ response.status = success =>
             /\ RepeatedLinkedOnce(u, Named(data, "tags"), response.db.tags,
                                    response.db.recipe_tags, pk)
             /\ RepeatedLinkedOnce(u, Named(data, "ingrediants"),
                                    response.db.ingrediants,
                                    response.db.recipe_ingrediants, pk)

C13_DeleteRecipeOnly ==
    \A pk \in DOMAIN recipes :
        LET u == recipes[pk].user
            response == RecipeViewSet_as_view(u, DB,
                           RecipeViewSet_destroy(u, pk, DB))
            after == response.db
        IN  /\ response.status = 204
            /\ DOMAIN after.recipes = DOMAIN recipes \ {pk}
            /\ \A r \in DOMAIN after.recipes : after.recipes[r] = recipes[r]
            /\ after.recipe_tags = {l \in recipe_tags : l[1] # pk}
            /\ after.recipe_ingrediants = {l \in recipe_ingrediants : l[1] # pk}
            /\ after.tags = tags
            /\ after.ingrediants = ingrediants
            /\ after.users = users
            /\ TagViewSet_list(u, EmptyDict, after).body
                 = TagViewSet_list(u, EmptyDict, DB).body
            /\ IngrediantsViewSet_list(u, EmptyDict, after).body
                 = IngrediantsViewSet_list(u, EmptyDict, DB).body

\* a recipe with a tag and an ingrediant no other recipe has, and another
\* recipe with a tag: after the deletion the tag is still listed and the
\* other recipe keeps its link
C13_Witness ==
    \E pk, other \in DOMAIN recipes, t \in DOMAIN tags :
        LET u == recipes[pk].user
            after == RecipeViewSet_destroy(u, pk, DB).db
        IN  /\ pk # other
            /\ {l \in recipe_tags : l[2] = t} = {<<pk, t>>}
            /\ LinkedTo(recipe_ingrediants, pk) # {}
            /\ LinkedTo(recipe_tags, other) # {}
            /\ t \in Range(ShownIds(TagViewSet_list(u, EmptyDict, after)))
            /\ LinkedTo(after.recipe_tags, other) = LinkedTo(recipe_tags, other)
            /\ pk \notin DOMAIN after.recipes

\* the rows of a table whose owner is no row of the user table
Orphans(rows, userRows) ==
    {id \in DOMAIN rows : rows[id].user \notin DOMAIN userRows}

NoOrphans(db) ==
    /\ Orphans(db.recipes, db.users) = {}
    /\ Orphans(db.tags, db.users) = {}
    /\ Orphans(db.ingrediants, db.users) = {}

(***************************************************************************)
(* C14: in every state every recipe, tag and ingrediant has an owner and   *)
(* the owner is a user of the store; the deletion of a user through the    *)
(* admin endpoint removes every recipe, tag and ingrediant of the user.    *)
(***************************************************************************)
C14_OwnerExists ==
    /\ NoOrphans(DB)
    /\ \A token \in Tokens, pk \in UserIds :
          LET response == AdminUserView_as_view(token, DB,
                             AdminUserView_destroy(pk, DB))
          IN  /\ NoOrphans(response.db)
              /\ response.status = 204 =>
                    /\ pk \notin DOMAIN response.db.users
                    /\ \A r \in DOMAIN response.db.recipes :
                          response.db.recipes[r].user # pk

\* a user who had created a recipe with a tag and an ingrediant was deleted
\* by the other user: the recipe, the tag and the ingrediant went with it
C14_Witness ==
    /\ last_id.user = 2 /\ Cardinality(DOMAIN users) = 1
    /\ \A u \in DOMAIN users : users[u].is_staff
    /\ last_id.recipe = 1 /\ recipes = <<>>
    /\ last_id.tag = 1 /\ tags = <<>>
    /\ last_id.ingrediant = 1 /\ ingrediants = <<>>
    /\ recipe_tags = {} /\ recipe_ingrediants = {}

\* the part of email before its last "@" and the part after it
LocalPart(email) == SubSeq(email, 1, LastAt(email) - 1)
DomainPart(email) == SubSeq(email, LastAt(email) + 1, Len(email))

Lowered(s) == [k \in DOMAIN s |-> IF s[k] = "A" THEN "a" ELSE s[k]]

\* the email without the blanks around it
Trimmed(email) ==
    IF \A k \in DOMAIN email : email[k] = " " THEN <<>>
    ELSE LET first == CHOOSE i \in DOMAIN email :
                         email[i] # " " /\ \A h \in 1..(i - 1) : email[h] = " "
             last == CHOOSE j \in DOMAIN email :
                         email[j] # " "
                         /\ \A h \in (j + 1)..Len(email) : email[h] = " "
         IN  SubSeq(email, first, last)

\* what create_user(email, password) stores as the email, when it stores
Stored(email, password) ==
    LET res == create_user(email, password, EmptyDict, DB)
    IN  IF res.raised THEN <<"nothing">> ELSE res.db.users[res.obj].email

(***************************************************************************)
(* C15 (as stated): create_user stores every non-empty email with the      *)
(* part after the "@" lowercased and the part before it unchanged.         *)
(***************************************************************************)
C15_DomainLoweredLocalKept ==
    \A email \in EmailStrings \ {<<>>} :
        LET stored == Stored(email, <<"12345">>)
        IN  (LastAt(email) # 0 /\ stored # <<"nothing">>) =>
               /\ LocalPart(stored) = LocalPart(email)
               /\ DomainPart(stored) = Lowered(DomainPart(email))

(***************************************************************************)
(* C15 (amended): create_user stores an email that has an "@" without the  *)
(* blanks around it, the part after the last "@" lowercased and the part   *)
(* before it unchanged; an email without "@" is stored as given.           *)
(***************************************************************************)
C15_TrimmedDomainLowered ==
    \A email \in EmailStrings \ {<<>>} :
        LET stored == Stored(email, <<"12345">>)
        IN  stored # <<"nothing">> =>
               IF LastAt(email) = 0
               THEN stored = email
               ELSE stored = LocalPart(Trimmed(email)) \o <<"@">>
                             \o Lowered(DomainPart(Trimmed(email)))

\* a user is stored as A@a, which is what A@A and A@A between blanks are
\* stored as when no user holds it
C15_Witness ==
    /\ \E u \in DOMAIN users : users[u].email = <<"A", "@", "a">>
    /\ \E u \in DOMAIN users :
          LET before == [DB EXCEPT !.users = DeleteRow(@, u)]
          IN  /\ create_user(<<"A", "@", "A">>, None, EmptyDict, before)
                   .db.users[last_id.user + 1].email = <<"A", "@", "a">>
              /\ create_user(<<" ", "A", "@", "A">>, None, EmptyDict, before)
                   .db.users[last_id.user + 1].email = <<"A", "@", "a">>
    /\ Cardinality(DOMAIN users) = 1

\* two addresses are the same mailbox: the same local part and the same
\* domain but for the case of its letters
SameAddress(e1, e2) ==
    /\ Len(e1) = Len(e2)
    /\ LastAt(e1) = LastAt(e2)
    /\ LocalPart(e1) = LocalPart(e2)
    /\ Lowered(DomainPart(e1)) = Lowered(DomainPart(e2))

Taken(email) == \E u \in DOMAIN users : SameAddress(users[u].email, email)

(***************************************************************************)
(* C16: a rejected user creation stores nothing: create_user with an empty *)
(* email raises and leaves the store as it was, and the register endpoint  *)
(* answers 400 and leaves the store as it was when the email is taken or   *)
(* the password has fewer than 5 characters.                               *)
(***************************************************************************)
C16_RejectedCreationStoresNothing ==
    /\ \A password \in {None, <<"12345">>} :
          LET res == create_user(<<>>, password, EmptyDict, DB)
          IN  res.raised /\ res.db = DB
    /\ \A data \in UserPayloads :
          (/\ Has(data, "email") /\ Has(data, "password")
           /\ \/ Taken(data.email)
              \/ Len(data.password) < 5) =>
             LET response == CreateUserView_create(data, DB)
             IN  response.status = 400 /\ response.db = DB

\* the rows all the user endpoints may show, whoever asks
UserResponses ==
    {CreateUserView_create(data, DB) : data \in UserPayloads}
    \cup {ManageUserView_as_view(token, DB, ManageUserView_retrieve(token, DB)) :
             token \in Tokens}
    \cup {ManageUserView_as_view(token, DB,
             ManageUserView_update(token, data, partial, DB)) :
             token \in Tokens, partial \in BOOLEAN,
             data \in UserPayloads \cup UserPatchPayloads}
    \cup {AdminUserView_as_view(token, DB, AdminUserView_list(page, DB)) :
             token \in Tokens, page \in Pages}
    \cup {AdminUserView_as_view(token, DB, AdminUserView_retrieve(pk, DB)) :
             token \in Tokens, pk \in UserIds}
    \cup {AdminUserView_as_view(token, DB, AdminUserView_create(data, DB)) :
             token \in Tokens, data \in UserPayloads}
    \cup {AdminUserView_as_view(token, DB,
             AdminUserView_update(pk, data, partial, DB)) :
             token \in Tokens, pk \in UserIds, partial \in BOOLEAN,
             data \in UserPayloads \cup UserPatchPayloads}

(***************************************************************************)
(* C17: no response of the register endpoint, of the profile endpoint (GET *)
(* PATCH, PUT me) or of the admin user endpoints (list, detail, create,    *)
(* update) has a password field, plain or hashed.                          *)
(***************************************************************************)
C17_NoPasswordInResponse ==
    \A response \in UserResponses :
        \A k \in DOMAIN response.body : ~Has(response.body[k], "password")

\* a request that authenticates nobody is answered 401, shows nothing and
\* leaves the store as it was
Unauthorized(response) == response = Response(401, <<>>, DB)

(***************************************************************************)
(* C18: every request to the recipe, tag, ingrediant and profile (me)      *)
(* endpoints that carries no token of an authenticated user is answered    *)
(* 401, shows no row and leaves the store as it was.                       *)
(***************************************************************************)
C18_UnauthenticatedRefused ==
    \A token \in Tokens :
        TokenAuthentication(token, DB).user = AnonymousUser =>
           /\ \A params \in RecipeQueryParams :
                 Unauthorized(RecipeViewSet_as_view(token, DB,
                    RecipeViewSet_list(token, params, DB)))
           /\ \A data \in RecipePayloads :
                 Unauthorized(RecipeViewSet_as_view(token, DB,
                    RecipeViewSet_create(token, data, DB)))
           /\ \A pk \in RecipeIds :
                 /\ Unauthorized(RecipeViewSet_as_view(token, DB,
                       RecipeViewSet_retrieve(token, pk, DB)))
                 /\ Unauthorized(RecipeViewSet_as_view(token, DB,
                       RecipeViewSet_destroy(token, pk, DB)))
                 /\ \A partial \in BOOLEAN :
                       \A data \in UpdatePayloads(partial) :
                       Unauthorized(RecipeViewSet_as_view(token, DB,
                          RecipeViewSet_update(token, pk, data, partial, DB)))
                 /\ \A data \in ImagePayloads :
                       Unauthorized(RecipeViewSet_as_view(token, DB,
                          RecipeViewSet_upload_image(token, pk, data, DB)))
           /\ \A params \in AttrQueryParams :
                 /\ Unauthorized(TagViewSet_as_view(token, DB,
                       TagViewSet_list(token, params, DB)))
                 /\ Unauthorized(IngrediantsViewSet_as_view(token, DB,
                       IngrediantsViewSet_list(token, params, DB)))
           /\ \A pk \in TagIds :
                 /\ Unauthorized(TagViewSet_as_view(token, DB,
                       TagViewSet_destroy(token, pk, DB)))
                 /\ \A partial \in BOOLEAN, data \in AttrPayloads :
                       Unauthorized(TagViewSet_as_view(token, DB,
                          TagViewSet_update(token, pk, data, partial, DB)))
           /\ \A pk \in IngrediantIds :
                 /\ Unauthorized(IngrediantsViewSet_as_view(token, DB,
                       IngrediantsViewSet_destroy(token, pk, DB)))
                 /\ \A partial \in BOOLEAN, data \in AttrPayloads :
                       Unauthorized(IngrediantsViewSet_as_view(token, DB,
                          IngrediantsViewSet_update(token, pk, data, partial,
                                                    DB)))
           /\ Unauthorized(ManageUserView_as_view(token, DB,
                 ManageUserView_retrieve(token, DB)))
           /\ \A partial \in BOOLEAN :
                 \A data \in UserUpdatePayloads(partial) :
                 Unauthorized(ManageUserView_as_view(token, DB,
                    ManageUserView_update(token, data, partial, DB)))

\* a store with a recipe, a tag and an ingrediant: the owner's token lists
\* them, no token is answered 401 with nothing
C18_Witness ==
    \E u \in Users :
        /\ RecipeViewSet_as_view(u, DB,
              RecipeViewSet_list(u, EmptyDict, DB)).body # <<>>
        /\ TagViewSet_as_view(u, DB, TagViewSet_list(u, EmptyDict, DB)).body
             # <<>>
        /\ IngrediantsViewSet_as_view(u, DB,
              IngrediantsViewSet_list(u, EmptyDict, DB)).body # <<>>
        /\ RecipeViewSet_as_view(NoToken, DB,
              RecipeViewSet_list(NoToken, EmptyDict, DB)).status = 401
        /\ TagViewSet_as_view(NoToken, DB,
              TagViewSet_list(NoToken, EmptyDict, DB)).status = 401
        /\ ManageUserView_as_view(NoToken, DB,
              ManageUserView_retrieve(NoToken, DB)).status = 401

\* the rows of a table with the name of row pk left out of the comparison
ButName(rows, pk) ==
    [id \in DOMAIN rows |-> IF id = pk THEN [user |-> rows[id].user]
                            ELSE rows[id]]

\* the update of row pk changed at most the name of the row, to the name
\* given if one was given
OnlyRenamed(before, after, pk, data) ==
    /\ ButName(after, pk) = ButName(before, pk)
    /\ after[pk].name = IF Has(data, "name") THEN data.name
                        ELSE before[pk].name

(***************************************************************************)
(* C26: a PUT or PATCH of a tag or an ingrediant by its owner changes only *)
(* the name of that row: the owner and the id of the row, the recipes it   *)
(* is linked to and every other row of the store are as they were.         *)
(***************************************************************************)
C26_AttrUpdateOnlyRenames ==
    \A partial \in BOOLEAN, data \in AttrUpdatePayloads :
        /\ \A pk \in DOMAIN tags :
              LET u == tags[pk].user
                  response == TagViewSet_as_view(u, DB,
                                 TagViewSet_update(u, pk, data, partial, DB))
              IN  /\ response.status \in {200, 400}
                  /\ OnlyRenamed(tags, response.db.tags, pk,
                        IF response.status = 200 THEN data ELSE EmptyDict)
                  /\ [response.db EXCEPT !.tags = tags] = DB
        /\ \A pk \in DOMAIN ingrediants :
              LET u == ingrediants[pk].user
                  response == IngrediantsViewSet_as_view(u, DB,
                                 IngrediantsViewSet_update(u, pk, data, partial,
                                                           DB))
              IN  /\ response.status \in {200, 400}
                  /\ OnlyRenamed(ingrediants, response.db.ingrediants, pk,
                        IF response.status = 200 THEN data ELSE EmptyDict)
                  /\ [response.db EXCEPT !.ingrediants = ingrediants] = DB

\* a tag linked to a recipe, and another tag: a PATCH that names another
\* user and another name renames the tag and leaves owner and links
C26_Witness ==
    \E pk, other \in DOMAIN tags :
        LET u == tags[pk].user
            data == [name |-> "b", user |-> 3 - u]
            response == TagViewSet_as_view(u, DB,
                           TagViewSet_update(u, pk, data, TRUE, DB))
        IN  /\ pk # other
            /\ tags[pk].name = "a"
            /\ \E l \in recipe_tags : l[2] = pk
            /\ response.status = 200
            /\ response.db.tags[pk] = [user |-> u, name |-> "b"]
            /\ response.db.recipe_tags = recipe_tags

\* the rows are all there after the request, as they were
RowsKept(before, after) ==
    \A id \in DOMAIN before : id \in DOMAIN after /\ after[id] = before[id]

\* the recipes other than pk have the links they had
OtherLinksKept(before, after, pk) ==
    {l \in after : l[1] # pk} = {l \in before : l[1] # pk}

\* a create or update of recipe pk by u left the tags and ingrediants and
\* the links of the other recipes alone, and every tag of u is in the
\* unfiltered tag list of u
RecipeWriteFrame(u, pk, response) ==
    /\ RowsKept(tags, response.db.tags)
    /\ RowsKept(ingrediants, response.db.ingrediants)
    /\ OtherLinksKept(recipe_tags, response.db.recipe_tags, pk)
    /\ OtherLinksKept(recipe_ingrediants, response.db.recipe_ingrediants, pk)
    /\ response.db.users = users
    /\ LET listed == Range(TagViewSet_list(u, EmptyDict, response.db).body)
       IN  \A t \in DOMAIN tags : tags[t].user = u =>
              [id |-> t, name |-> tags[t].name] \in listed

(***************************************************************************)
(* C27: a recipe create or update never deletes or renames a tag or an     *)
(* ingrediant and never changes the links of another recipe: a tag the     *)
(* update unlinks still exists with its owner and name, is linked to the   *)
(* other recipes it was linked to and is in the owner's unfiltered tag     *)
(* list.                                                                   *)
(***************************************************************************)
C27_RecipeWriteKeepsRows ==
    \A u \in Users :
        /\ \A data \in RecipePayloads :
              RecipeWriteFrame(u, last_id.recipe + 1,
                 RecipeViewSet_as_view(u, DB, RecipeViewSet_create(u, data, DB)))
        /\ \A pk \in RecipeIds, partial \in BOOLEAN :
              \A data \in UpdatePayloads(partial) :
                 RecipeWriteFrame(u, pk,
                    RecipeViewSet_as_view(u, DB,
                       RecipeViewSet_update(u, pk, data, partial, DB)))

\* two recipes of one user share a tag; the update of one with an empty
\* tag list unlinks it there, and the tag is still linked to the other
\* and listed
C27_Witness ==
    \E pk, other \in DOMAIN recipes, t \in DOMAIN tags :
        LET u == recipes[pk].user
            response == RecipeViewSet_as_view(u, DB,
                           RecipeViewSet_update(u, pk, [tags |-> <<>>], TRUE,
                                                DB))
        IN  /\ pk # other
            /\ {<<pk, t>>, <<other, t>>} \subseteq recipe_tags
            /\ response.status = 200
            /\ <<pk, t>> \notin response.db.recipe_tags
            /\ <<other, t>> \in response.db.recipe_tags
            /\ response.db.tags[t] = tags[t]
            /\ t \in Range(ShownIds(TagViewSet_list(u, EmptyDict, response.db)))

\* the request did not complete
Failed(response) == response.status \notin {200, 201}

(***************************************************************************)
(* C22: a recipe create or update request completes or fails outright: if  *)
(* the request fails, at validation or at any step of the reconciliation,  *)
(* the store is as it was before the request: no recipe row, no tag or     *)
(* ingrediant row and no link was created, and no link was cleared.        *)
(***************************************************************************)
C22_FailedWriteStoresNothing ==
    \A u \in Users :
        /\ \A data \in RecipePayloads :
              LET response == RecipeViewSet_as_view(u, DB,
                                 RecipeViewSet_create(u, data, DB))
              IN  Failed(response) => response.db = DB
        /\ \A pk \in RecipeIds, partial \in BOOLEAN :
              \A data \in UpdatePayloads(partial) :
                 LET response == RecipeViewSet_as_view(u, DB,
                                    RecipeViewSet_update(u, pk, data, partial,
                                                         DB))
                 IN  Failed(response) => response.db = DB

\* two tags of one user have the same name (one was renamed): an update
\* that names it clears the links of the recipe and then fails at the
\* lookup, a create fails after the recipe row was inserted; neither
\* leaves a trace
C22_Witness ==
    \E pk \in DOMAIN recipes :
        LET u == recipes[pk].user
            data == [title |-> "t1", tags |-> <<[name |-> "a"]>>]
            handled == RecipeViewSet_update(u, pk, data, TRUE, DB)
            created == RecipeViewSet_create(u, data, DB)
        IN  /\ LinkedTo(recipe_tags, pk) # {}
            /\ handled.status = 500
            /\ LinkedTo(handled.db.recipe_tags, pk) = {}
            /\ RecipeViewSet_as_view(u, DB, handled) = Response(500, <<>>, DB)
            /\ created.status = 500
            /\ DOMAIN created.db.recipes # DOMAIN recipes
            /\ RecipeViewSet_as_view(u, DB, created) = Response(500, <<>>, DB)

\* the users with a privilege
Privileged(db) ==
    {u \in DOMAIN db.users : db.users[u].is_staff \/ db.users[u].is_superuser}

\* payloads that ask for a privilege, alone or with the other fields
PrivilegePayloads ==
    {Merge(x, d) : d \in UserPayloads \cup UserPatchPayloads,
                   x \in {[is_staff |-> TRUE], [is_superuser |-> TRUE],
                          [is_staff |-> TRUE, is_superuser |-> TRUE]}}

C24_EmailsUniqueNormalized ==
    /\ \A u, v \in DOMAIN users : u # v => users[u].email # users[v].email
    /\ \A u \in DOMAIN users :
          DomainPart(users[u].email) = Lowered(DomainPart(users[u].email))

\* the names a response shows under key of the one recipe of its body
ShownNames(response, key) == {x.name : x \in response.body[1][key]}

\* the names of a list of a payload
Wanted(list) == {list[1][k].name : k \in DOMAIN list[1]}

\* worker p commits in this step a request for recipe r, and what a reader
\* is shown of r afterwards has every name of the lists of the request
CommitsWhole(p, u, r) ==
    /\ workers[p].pc = "commit" /\ workers'[p].pc = "done"
    /\ workers[p].recipe = r
    /\ RecipeViewSet_retrieve(u, r, DB').status = 200
    /\ workers[p].tags # None =>
          ShownNames(RecipeViewSet_retrieve(u, r, DB'), "tags")
             = Wanted(workers[p].tags)
    /\ workers[p].ingrediants # None =>
          ShownNames(RecipeViewSet_retrieve(u, r, DB'), "ingrediants")
             = Wanted(workers[p].ingrediants)

(***************************************************************************)
(* C21: a recipe create or update appears atomic to the readers: what a    *)
(* detail or list request is shown of a recipe changes only in the step    *)
(* in which a request for that recipe commits, and then to the whole of    *)
(* the lists of that request; no reader is shown the recipe with its       *)
(* links cleared and not yet added again, or with a part of the new list.  *)
(***************************************************************************)
C21_UpdateAtomicToReaders ==
    [][\A u \in RacingUsers : DB' # DB =>
          /\ \A r \in RecipeIds :
                Seen(RecipeViewSet_retrieve(u, r, DB'))
                   # Seen(RecipeViewSet_retrieve(u, r, DB))
                => \E p \in Procs : CommitsWhole(p, u, r)
          /\ Seen(RecipeViewSet_list(u, EmptyDict, DB'))
                # Seen(RecipeViewSet_list(u, EmptyDict, DB))
             => \E p \in Procs :
                   workers[p].pc = "commit" /\ workers'[p].pc = "done"]_vars

\* an update is between its clear and its last add: the request itself
\* reads the recipe without a tag, a reader is shown the tags it had
C21_Witness ==
    \E p \in Procs :
        LET w == workers[p]
        IN  /\ w.clears /\ w.pc \in {"get", "create", "add"}
            /\ w.table = "tags" /\ Len(w.rest) = 2
            /\ ShownNames(RecipeViewSet_retrieve(w.user, w.recipe, View(w)),
                          "tags") = {}
            /\ ShownNames(RecipeViewSet_retrieve(w.user, w.recipe, DB),
                          "tags") = {"a"}

\* the rows of (user, name) a worker reads
Same(w, name) == QuerySet_get(Rows(View(w), w.table), w.user, name)

(***************************************************************************)
(* C23: two requests of one user that name the same tag or ingrediant may  *)
(* race: a request whose lookup found no row inserts one, whatever rows    *)
(* the other request has inserted or committed since the lookup, so that   *)
(* two rows with the same (user, name) are left; nothing refuses the       *)
(* second insert.                                                          *)
(***************************************************************************)
C23_MissedLookupInserts ==
    [][\A p \in Procs :
          (workers[p].pc = "create" /\ workers'[p] # workers[p]) =>
             LET w == workers[p]
                 name == Head(w.rest).name
             IN  /\ workers'[p].pc = "add"
                 /\ workers'[p].obj \notin Same(w, name)
                 /\ Same(workers[p], name)' = Same(w, name) \cup {workers'[p].obj}
       ]_vars

\* both workers inserted a tag for the same name and committed: the store
\* has two tags of the same user and name
C23_Witness ==
    \E x \in workers[1].made, y \in workers[2].made :
        /\ workers[1].status \in {200, 201} /\ workers[2].status \in {200, 201}
        /\ x[1] = "tags" /\ y[1] = "tags"
        /\ x[2] # y[2]
        /\ {x[2], y[2]} \subseteq DOMAIN tags
        /\ tags[x[2]] = tags[y[2]]

====
